---- MODULE Spec2Model ----
(***************************************************************************)
(* Transcript Analysis Engine: the AI-backed extractor's retry loop,       *)
(* response repair and output validation (lib/engine/gemini_processor.py), *)
(* the callers' rule-based fallback and session storage (app.py), the      *)
(* scoring formulas (lib/engine/mastery.py), mental-block detection,       *)
(* severity and aggregation (lib/engine/mental_blocks.py, app.py) and the  *)
(* rule-based goal, curriculum and engagement helpers                      *)
(* (lib/engine/rule_based.py).                                             *)
(***************************************************************************)
EXTENDS Integers, Sequences, FiniteSets, TLC

(***************************************************************************)
(* Bounds of the model                                                     *)
(***************************************************************************)
\* processing requests handled in one behaviour
MaxRequests == 2
\* duration of one remote generation call, in seconds
CallSeconds == 1

\* largest error count and independent-solve count of an update (besides
\* the extreme value 1000)
MaxErrors == 3
MaxSolves == 3
\* how often one update vector is applied to a score
MaxApplications == 2

(***************************************************************************)
(* Program constants                                                       *)
(***************************************************************************)
MAX_RETRIES == 3
RETRY_BASE_DELAY == 1
IMPROVEMENT_WEIGHT == 5
ERROR_PENALTY_WEIGHT == 3
INDEPENDENT_SOLVE_BONUS == 4
MAX_SCORE == 100
MIN_SCORE == 0
\* scores and improvement factors are floats; the model counts them in
\* thousandths (50.0 is 50000, improvement 0.3 is 300)
Unit == 1000

\* transcripts are opaque texts, told apart by an identifier
Transcripts == {1, 2}
StudentIds == {1}
Kinds == {"trial", "session"}

(***************************************************************************)
(* Model output.  A response text is a sequence of tokens:                 *)
(*   "F"  a markdown code fence (``` or ```json)                           *)
(*   "L"  the character {          "R"  the character }                    *)
(*   "J"  prose that is not JSON                                           *)
(*   "A"  the text of a JSON array                                         *)
(*   "SR" a JSON string literal whose content holds the character }        *)
(*   "P.." the key/value text of one JSON object (see Payload)             *)
(***************************************************************************)
PayloadIds == {"P_ok", "P_mixed", "P_nodesc", "P_nogoals", "P_notopics",
               "P_emptytopics", "P_session"}

Goal(d) == [is_dict |-> TRUE, description |-> d]
Topic(n) == [is_dict |-> TRUE, name |-> n]
NonDict == [is_dict |-> FALSE, description |-> "", name |-> ""]

\* the JSON object a payload token stands for; "ABSENT" marks a missing key
Payload(p) ==
  CASE p = "P_ok" ->
         [type |-> "dict", has_goals |-> TRUE,
          goals |-> <<Goal("g1"), Goal("g2")>>,
          has_topics |-> TRUE, topics |-> <<Topic("t1")>>,
          summary |-> "s1", tutor_insight |-> "ABSENT"]
    [] p = "P_mixed" ->
         [type |-> "dict", has_goals |-> TRUE,
          goals |-> <<Goal(""), Goal("g1"), NonDict>>,
          has_topics |-> TRUE, topics |-> <<Topic(""), Topic("t1")>>,
          summary |-> "ABSENT", tutor_insight |-> "ABSENT"]
    [] p = "P_nodesc" ->
         [type |-> "dict", has_goals |-> TRUE,
          goals |-> <<Goal("ABSENT"), Goal("")>>,
          has_topics |-> TRUE, topics |-> <<Topic("t1")>>,
          summary |-> "s1", tutor_insight |-> "ABSENT"]
    [] p = "P_nogoals" ->
         [type |-> "dict", has_goals |-> FALSE, goals |-> <<>>,
          has_topics |-> TRUE, topics |-> <<Topic("t1")>>,
          summary |-> "s1", tutor_insight |-> "ABSENT"]
    [] p = "P_notopics" ->
         [type |-> "dict", has_goals |-> TRUE, goals |-> <<Goal("g1")>>,
          has_topics |-> FALSE, topics |-> <<>>,
          summary |-> "s1", tutor_insight |-> "ABSENT"]
    [] p = "P_emptytopics" ->
         [type |-> "dict", has_goals |-> TRUE, goals |-> <<Goal("g1")>>,
          has_topics |-> TRUE, topics |-> <<Topic("")>>,
          summary |-> "ABSENT", tutor_insight |-> "ABSENT"]
    [] OTHER ->
         [type |-> "dict", has_goals |-> FALSE, goals |-> <<>>,
          has_topics |-> FALSE, topics |-> <<>>,
          summary |-> "ABSENT", tutor_insight |-> "i1"]

EmptyDict ==
  [type |-> "dict", has_goals |-> FALSE, goals |-> <<>>,
   has_topics |-> FALSE, topics |-> <<>>,
   summary |-> "ABSENT", tutor_insight |-> "ABSENT"]

JsonList == [type |-> "list"]

\* the texts the remote model may return
Responses ==
  {<<"L", p, "R">> : p \in PayloadIds}
    \cup {<<"F", "L", "P_ok", "R", "F">>,
          <<"J", "L", "P_ok", "R", "J">>,
          <<"J", "L", "P_nodesc", "R">>,
          <<"L", "P_ok", "L", "P_session", "R", "R", "J">>,
          <<"L", "P_ok", "SR", "R", "J">>,
          <<"A">>,
          <<"J">>,
          <<>>,
          <<"L", "P_ok">>,
          <<"J", "L", "J", "R">>}

\* what generate_content raises when the remote call itself fails
TransportErrors == {"timeout"}

(***************************************************************************)
(* Response repair: GeminiProcessor._extract_json                          *)
(***************************************************************************)
\* tokens that may occur between the braces of a JSON object
MemberTokens == PayloadIds \cup {"SR", "L", "R"}

\* nesting depth of a JSON text after its first i tokens; a brace inside a
\* string literal ("SR") is not structural for the JSON parser
RECURSIVE JsonDepth(_, _)
JsonDepth(t, i) ==
  IF i = 0 THEN 0
  ELSE JsonDepth(t, i - 1)
         + (IF t[i] = "L" THEN 1 ELSE IF t[i] = "R" THEN -1 ELSE 0)

IsJsonObject(t) ==
  /\ Len(t) >= 2
  /\ t[1] = "L"
  /\ t[Len(t)] = "R"
  /\ \A i \in 1..Len(t) : t[i] \in MemberTokens
  /\ \A i \in 1..(Len(t) - 1) : JsonDepth(t, i) > 0
  /\ JsonDepth(t, Len(t)) = 0

\* the keys of an object are those of its first top-level payload
ObjectValue(t) ==
  LET top == {i \in 1..Len(t) : t[i] \in PayloadIds /\ JsonDepth(t, i) = 1}
  IN  IF top = {} THEN EmptyDict
      ELSE Payload(t[CHOOSE i \in top : \A j \in top : i <= j])

\* json.loads: [ok |-> TRUE, value] or [ok |-> FALSE] (json.JSONDecodeError)
JsonLoads(t) ==
  IF t = <<"A">> THEN [ok |-> TRUE, value |-> JsonList]
  ELSE IF IsJsonObject(t) THEN [ok |-> TRUE, value |-> ObjectValue(t)]
  ELSE [ok |-> FALSE]

\* re.sub(r'^```(?:json)?\s*', '', ...) then re.sub(r'\s*```$', '', ...)
StripFences(text) ==
  LET c1 == IF Len(text) > 0 /\ text[1] = "F" THEN Tail(text) ELSE text
  IN  IF Len(c1) > 0 /\ c1[Len(c1)] = "F"
      THEN SubSeq(c1, 1, Len(c1) - 1) ELSE c1

\* text.find('{'): 0 stands for -1
FindOpen(text) ==
  IF \E i \in 1..Len(text) : text[i] = "L"
  THEN CHOOSE i \in 1..Len(text) :
         text[i] = "L" /\ \A j \in 1..(i - 1) : text[j] # "L"
  ELSE 0

\* the character scan of lines 86-92: the index at which depth returns to 0
\* (0 when it never does); every } character counts, also inside a string
RECURSIVE ScanClose(_, _, _)
ScanClose(text, i, depth) ==
  IF i > Len(text) THEN 0
  ELSE LET d == IF text[i] = "L" THEN depth + 1
                ELSE IF text[i] \in {"R", "SR"} THEN depth - 1
                ELSE depth
       IN  IF text[i] \in {"R", "SR"} /\ d = 0 THEN i
           ELSE ScanClose(text, i + 1, d)

\* [ok |-> TRUE, value] or [ok |-> FALSE, error] (ValueError)
_extract_json(text) ==
  LET direct == JsonLoads(StripFences(text))
      start == FindOpen(text)
      close == ScanClose(text, start, 0)
  IN  IF direct.ok THEN direct
      ELSE IF start = 0 THEN [ok |-> FALSE, error |-> "no_json"]
      ELSE IF close = 0 THEN [ok |-> FALSE, error |-> "unclosed_json"]
      ELSE IF JsonLoads(SubSeq(text, start, close)).ok
           THEN JsonLoads(SubSeq(text, start, close))
           ELSE [ok |-> FALSE, error |-> "invalid_json"]

(***************************************************************************)
(* Output validators                                                       *)
(***************************************************************************)
\* variant: the description is not looked at
ValidGoalAnyDict(g) == g.is_dict

\* isinstance(g, dict) and g.get("description")
ValidGoal(g) == g.is_dict /\ g.description \notin {"ABSENT", ""}

\* variant: a topic needs no name
ValidTopicAnyDict(t) == t.is_dict

\* isinstance(t, dict) and t.get("name")
ValidTopic(t) == t.is_dict /\ t.name \notin {"ABSENT", ""}

\* result.setdefault(key, default)
SetDefault(v, default) == IF v = "ABSENT" THEN default ELSE v

\* variant: a goal entry without description is given a default description
\* instead of being dropped
_validate_trial_result_defaulting(result) ==
  IF result.type # "dict" \/ ~result.has_goals \/ ~result.has_topics
  THEN [ok |-> FALSE, error |-> "missing_required_fields"]
  ELSE IF result.goals = <<>>
  THEN [ok |-> FALSE, error |-> "no_valid_goals"]
  ELSE [ok |-> TRUE,
        value |-> [result EXCEPT
           !.goals = [i \in DOMAIN result.goals |->
                        IF ValidGoal(result.goals[i]) THEN result.goals[i]
                        ELSE Goal("Untitled goal")],
           !.topics = SelectSeq(result.topics, ValidTopic),
           !.summary = SetDefault(result.summary,
                                  "Trial session processed by AI.")]]

\* [ok |-> TRUE, value] or [ok |-> FALSE, error]
_validate_trial_result(result) ==
  IF result.type # "dict" \/ ~result.has_goals \/ ~result.has_topics
  THEN [ok |-> FALSE, error |-> "missing_required_fields"]
  ELSE LET valid_goals == SelectSeq(result.goals, ValidGoal)
       IN  IF valid_goals = <<>>
           THEN [ok |-> FALSE, error |-> "no_valid_goals"]
           ELSE [ok |-> TRUE,
                 value |-> [result EXCEPT
                    !.goals = valid_goals,
                    !.topics = SelectSeq(result.topics, ValidTopic),
                    !.summary = SetDefault(result.summary,
                                           "Trial session processed by AI.")]]

_validate_session_result(result) ==
  IF result.type # "dict"
  THEN [ok |-> FALSE, error |-> "attribute_error"]
  ELSE [ok |-> TRUE,
        value |-> [result EXCEPT
           !.tutor_insight = SetDefault(result.tutor_insight,
                                        "Session data processed.")]]

(***************************************************************************)
(* Rule-based extractor, as far as the callers depend on it: it returns a   *)
(* result for every transcript and raises no error.  A transcript without  *)
(* goal phrases or topic keywords yields the generic goal and no topic.    *)
(***************************************************************************)
RuleBased_process_trial(transcript) ==
  [type |-> "dict", has_goals |-> TRUE,
   goals |-> <<Goal("Build overall math proficiency")>>,
   has_topics |-> TRUE, topics |-> <<>>,
   summary |-> "Curriculum track of transcript " \o ToString(transcript),
   tutor_insight |-> "ABSENT"]

RuleBased_process_session(transcript) ==
  [type |-> "dict", has_goals |-> FALSE, goals |-> <<>>,
   has_topics |-> FALSE, topics |-> <<>>,
   summary |-> "ABSENT",
   tutor_insight |-> "Topics covered in transcript " \o ToString(transcript)]

RuleBased(kind, transcript) ==
  IF kind = "trial" THEN RuleBased_process_trial(transcript)
  ELSE RuleBased_process_session(transcript)

(***************************************************************************)
(* State                                                                   *)
(***************************************************************************)
VARIABLES
  usingGemini,  \* app.processor is the GeminiProcessor (else RuleBasedProcessor)
  pc,           \* position of the request handler
  req,          \* the request being handled
  attempt,      \* _call_gemini: loop variable
  last_error,   \* _call_gemini: last_error
  log,          \* remote calls and sleeps of the current extractor call
  clock,        \* seconds since the extractor call began
  parsed,       \* what _call_gemini returned
  aiOutcome,    \* how GeminiProcessor.process_trial/process_session ended
  result,       \* app: result
  sessions,     \* rows of table sessions
  handled,      \* requests completed
  m_imp,        \* update_mastery: improvement_factor
  m_err,        \* update_mastery: error_count
  m_sol,        \* update_mastery: independent_solves
  m_scores,     \* a topic's mastery score: first value, then after each update
  c_hes,        \* update_confidence: hesitation_count
  c_pos,        \* update_confidence: positive_signals
  c_scores,     \* a topic's confidence score: first value, then after each update
  sv_f,         \* compute_severity: frequency_count
  sv_av,        \* compute_severity: has_avoidance
  sv_em,        \* compute_severity: has_emotional
  sv_out,       \* compute_severity: the value returned, once computed
  mb_table,     \* rows of table mental_blocks
  mb_detectedIn,\* history: per row, the sessions in which it was detected
  mb_transcript,\* the session transcript processed last
  mb_signals,   \* result["mental_block_signals"] of that session
  mb_count,     \* session transcripts processed
  gl_matches,   \* _extract_goals: the goal patterns' captures, in scan order
  gl_topics,    \* _extract_goals: the topics whose keywords occur
  gl_goals,     \* _extract_goals: the list returned, once computed
  cu_terms,     \* _infer_curriculum: the curriculum terms that occur
  cu_out,       \* _infer_curriculum: the value returned, once computed
  eg_pos,       \* transcript: ENGAGEMENT_POSITIVE phrases that occur
  eg_neg,       \* transcript: ENGAGEMENT_NEGATIVE phrases that occur
  eg_words,     \* transcript: len(lower.split())
  eg_raw,       \* the model's engagement_score entry
  eg_pc,        \* position of process_session's caller
  eg_out,       \* result["engagement_score"], once a result is returned
  vd_input,     \* validator: the result handed to it
  vd_out,       \* validator: its outcome, once it has run
  tr_text,      \* _truncate_transcript: transcript
  tr_out,       \* _truncate_transcript: the value returned, once computed
  rc_instance,  \* RuleBasedProcessor instance: its attributes
  rc_calls,     \* history: the calls made on the instance, with their results
  cc_config,    \* GeminiProcessor instance: api_key, model_name, model
  cc_calls,     \* per concurrent call: its local variables
  tp_topics,    \* rows of table topics
  tp_count,     \* requests processed on table topics
  rx_table,     \* rows of table mental_blocks shared by concurrent requests
  rx_reqs       \* per concurrent request: its position and local variables

engineVars == <<usingGemini, pc, req, attempt, last_error, log, clock, parsed,
                aiOutcome, result, sessions, handled>>
masteryVars == <<m_imp, m_err, m_sol, m_scores>>
confVars == <<c_hes, c_pos, c_scores>>
severityVars == <<sv_f, sv_av, sv_em, sv_out>>
blockVars == <<mb_table, mb_detectedIn, mb_transcript, mb_signals, mb_count>>
goalVars == <<gl_matches, gl_topics, gl_goals>>
curriculumVars == <<cu_terms, cu_out>>
engagementVars == <<eg_pos, eg_neg, eg_words, eg_raw, eg_pc, eg_out>>
validatorVars == <<vd_input, vd_out>>
truncateVars == <<tr_text, tr_out>>
ruleCallVars == <<rc_instance, rc_calls>>
callVars == <<cc_config, cc_calls>>
topicVars == <<tp_topics, tp_count>>
raceVars == <<rx_table, rx_reqs>>
laterVars == <<validatorVars, truncateVars, ruleCallVars, callVars, topicVars,
               raceVars>>
restVars == <<confVars, severityVars, blockVars, goalVars, curriculumVars,
              engagementVars, laterVars>>
vars == <<engineVars, masteryVars, restVars>>

NoValue == [type |-> "none"]
NoOutcome == [kind |-> "none"]
NoRequest == [kind |-> "none", transcript |-> 0, student_id |-> 0]

EngineIdle ==
  /\ pc = "idle"
  /\ req = NoRequest
  /\ attempt = 0
  /\ last_error = "None"
  /\ log = <<>>
  /\ clock = 0
  /\ parsed = NoValue
  /\ aiOutcome = NoOutcome
  /\ result = NoValue
  /\ sessions = <<>>
  /\ handled = 0

MasteryIdle ==
  /\ m_imp = 0
  /\ m_err = 0
  /\ m_sol = 0
  /\ m_scores = <<>>

ConfIdle ==
  /\ c_hes = 0
  /\ c_pos = 0
  /\ c_scores = <<>>

SeverityIdle ==
  /\ sv_f = 0
  /\ sv_av = FALSE
  /\ sv_em = FALSE
  /\ sv_out = <<>>

NoTranscript == [avoidance |-> {}, emotional |-> {}, hesitation |-> {}]

BlocksIdle ==
  /\ mb_table = <<>>
  /\ mb_detectedIn = <<>>
  /\ mb_transcript = NoTranscript
  /\ mb_signals = <<>>
  /\ mb_count = 0

GoalsIdle ==
  /\ gl_matches = <<>>
  /\ gl_topics = <<>>
  /\ gl_goals = <<>>

CurriculumIdle ==
  /\ cu_terms = {}
  /\ cu_out = <<>>

EngagementIdle ==
  /\ eg_pos = 0
  /\ eg_neg = 0
  /\ eg_words = 0
  /\ eg_raw = NoValue
  /\ eg_pc = "idle"
  /\ eg_out = <<>>

ValidatorIdle ==
  /\ vd_input = NoValue
  /\ vd_out = <<>>

TruncateIdle ==
  /\ tr_text = NoValue
  /\ tr_out = <<>>

RuleCallIdle ==
  /\ rc_instance = NoValue
  /\ rc_calls = <<>>

CallIdle ==
  /\ cc_config = NoValue
  /\ cc_calls = <<>>

TopicsIdle ==
  /\ tp_topics = <<>>
  /\ tp_count = 0

RaceIdle ==
  /\ rx_table = <<>>
  /\ rx_reqs = <<>>

LaterIdle ==
  /\ ValidatorIdle
  /\ TruncateIdle
  /\ RuleCallIdle
  /\ CallIdle
  /\ TopicsIdle
  /\ RaceIdle

EarlierIdle ==
  /\ ConfIdle
  /\ SeverityIdle
  /\ BlocksIdle
  /\ GoalsIdle
  /\ CurriculumIdle
  /\ EngagementIdle

RestIdle ==
  /\ EarlierIdle
  /\ LaterIdle

Init ==
  /\ usingGemini \in BOOLEAN
  /\ EngineIdle
  /\ MasteryIdle
  /\ RestIdle

(***************************************************************************)
(* GeminiProcessor._call_gemini                                            *)
(***************************************************************************)
\* variant: only a failure of the remote call itself is caught
CaughtTransportOnly(failure) == failure = "transport"

\* `except Exception` (line 115): which failures of an attempt are caught
Caught(failure) == failure \in {"transport", "malformed"}

\* variant: only the first failure is remembered
RecordFirstError(prev, e) == IF prev = "None" THEN e ELSE prev

\* last_error = e (line 116)
RecordError(prev, e) == e

\* if attempt < MAX_RETRIES (line 117)
ShouldSleep(a) == a < MAX_RETRIES

\* variant: exponent off by one
BackoffDelayNoOffset(a) == RETRY_BASE_DELAY * (2 ^ a)

\* delay = RETRY_BASE_DELAY * (2 ** (attempt - 1)) (line 118)
BackoffDelay(a) == RETRY_BASE_DELAY * (2 ^ (a - 1))

\* variant: range(1, MAX_RETRIES + 2)
HasNextAttemptOffByOne(a) == a + 1 < MAX_RETRIES + 2

\* for attempt in range(1, MAX_RETRIES + 1) (line 105)
HasNextAttempt(a) == a + 1 < MAX_RETRIES + 1

\* variant: the caller catches only ValueError
CallerCatchesValueError(e) == e # "timeout"

\* app.py `except Exception` around processor.process_* (lines 434, 509)
CallerCatches(e) == TRUE

\* where the request handler continues when the processor raised e
AfterRaise(e) == IF CallerCatches(e) THEN "fallback" ELSE "failed"

Raised(e) == [kind |-> "raised", error |-> e]
Returned(v) == [kind |-> "returned", value |-> v]

\* the for statement takes the next attempt, or the loop ends and
\* `raise last_error` (line 129) leaves process_trial / process_session
LoopAdvance(err) ==
  IF HasNextAttempt(attempt)
  THEN /\ attempt' = attempt + 1
       /\ pc' = "attempt"
       /\ UNCHANGED aiOutcome
  ELSE /\ aiOutcome' = Raised(err)
       /\ pc' = AfterRaise(err)
       /\ UNCHANGED attempt

\* what self.model.generate_content(prompt) does
RemoteOutcomes ==
  {[raised |-> TRUE, error |-> e, text |-> <<>>] : e \in TransportErrors}
    \cup {[raised |-> FALSE, error |-> "None", text |-> t] : t \in Responses}

\* one iteration of the try block (lines 106-127) up to the sleep
GenerateContent(o) ==
  /\ pc = "attempt"
  /\ LET ext == IF o.raised THEN [ok |-> FALSE, error |-> o.error]
                ELSE _extract_json(o.text)
         failure == IF o.raised THEN "transport" ELSE "malformed"
         ev == [ev |-> "call", attempt |-> attempt, start |-> clock,
                end |-> clock + CallSeconds,
                outcome |-> IF ext.ok THEN "ok" ELSE failure,
                cause |-> IF ext.ok THEN "None" ELSE ext.error,
                value |-> IF ext.ok THEN ext.value ELSE NoValue]
     IN  /\ log' = Append(log, ev)
         /\ clock' = clock + CallSeconds
         /\ IF ext.ok
            THEN /\ parsed' = ext.value
                 /\ pc' = "validate"
                 /\ UNCHANGED <<attempt, last_error, aiOutcome>>
            ELSE IF ~Caught(failure)
            THEN /\ aiOutcome' = Raised(ext.error)
                 /\ pc' = AfterRaise(ext.error)
                 /\ UNCHANGED <<attempt, last_error, parsed>>
            ELSE /\ last_error' = RecordError(last_error, ext.error)
                 /\ UNCHANGED parsed
                 /\ IF ShouldSleep(attempt)
                    THEN /\ pc' = "sleep"
                         /\ UNCHANGED <<attempt, aiOutcome>>
                    ELSE LoopAdvance(last_error')
  /\ UNCHANGED <<usingGemini, req, result, sessions, handled>>
  /\ UNCHANGED <<masteryVars, restVars>>

\* time.sleep(delay) (line 123), then the next iteration
Backoff ==
  /\ pc = "sleep"
  /\ LET delay == BackoffDelay(attempt)
     IN  /\ log' = Append(log, [ev |-> "sleep", attempt |-> attempt,
                                start |-> clock, end |-> clock + delay,
                                outcome |-> "slept", cause |-> "None",
                                value |-> NoValue])
         /\ clock' = clock + delay
  /\ LoopAdvance(last_error)
  /\ UNCHANGED <<usingGemini, req, last_error, parsed, result, sessions,
                 handled>>
  /\ UNCHANGED <<masteryVars, restVars>>

(***************************************************************************)
(* GeminiProcessor.process_trial / process_session after _call_gemini      *)
(***************************************************************************)
Validate ==
  /\ pc = "validate"
  /\ LET v == IF req.kind = "trial" THEN _validate_trial_result(parsed)
              ELSE _validate_session_result(parsed)
     IN  IF v.ok
         THEN /\ aiOutcome' = Returned(v.value)
              /\ result' = v.value
              /\ pc' = "store"
         ELSE /\ aiOutcome' = Raised(v.error)
              /\ pc' = AfterRaise(v.error)
              /\ UNCHANGED result
  /\ UNCHANGED <<usingGemini, req, attempt, last_error, log, clock, parsed,
                 sessions, handled>>
  /\ UNCHANGED <<masteryVars, restVars>>

(***************************************************************************)
(* app.process_trial / app.process_session                                 *)
(***************************************************************************)
Receive(kind, transcript, student_id) ==
  /\ pc = "idle"
  /\ handled < MaxRequests
  /\ req' = [kind |-> kind, transcript |-> transcript,
             student_id |-> student_id]
  /\ pc' = IF usingGemini THEN "attempt" ELSE "rule_based"
  /\ attempt' = IF usingGemini THEN 1 ELSE 0
  /\ last_error' = "None"
  /\ log' = <<>>
  /\ clock' = 0
  /\ parsed' = NoValue
  /\ aiOutcome' = NoOutcome
  /\ result' = NoValue
  /\ UNCHANGED <<usingGemini, sessions, handled>>
  /\ UNCHANGED <<masteryVars, restVars>>

\* processor is the RuleBasedProcessor: the try block returns its result
PrimaryRuleBased ==
  /\ pc = "rule_based"
  /\ result' = RuleBased(req.kind, req.transcript)
  /\ pc' = "store"
  /\ UNCHANGED <<usingGemini, req, attempt, last_error, log, clock, parsed,
                 aiOutcome, sessions, handled>>
  /\ UNCHANGED <<masteryVars, restVars>>

\* except Exception: result = fallback_processor.process_*(transcript, ...)
Fallback ==
  /\ pc = "fallback"
  /\ result' = RuleBased(req.kind, req.transcript)
  /\ pc' = "store"
  /\ UNCHANGED <<usingGemini, req, attempt, last_error, log, clock, parsed,
                 aiOutcome, sessions, handled>>
  /\ UNCHANGED <<masteryVars, restVars>>

\* INSERT INTO sessions (...)
SessionRow ==
  [student_id |-> req.student_id,
   transcript_text |-> req.transcript,
   session_type |-> req.kind,
   extracted_summary |-> IF req.kind = "trial" THEN result.summary
                         ELSE result.tutor_insight]

Store ==
  /\ pc = "store"
  /\ sessions' = Append(sessions, SessionRow)
  /\ handled' = handled + 1
  /\ pc' = "idle"
  /\ UNCHANGED <<usingGemini, req, attempt, last_error, log, clock, parsed,
                 aiOutcome, result>>
  /\ UNCHANGED <<masteryVars, restVars>>

Next ==
  \/ \E k \in Kinds, t \in Transcripts, s \in StudentIds : Receive(k, t, s)
  \/ \E o \in RemoteOutcomes : GenerateContent(o)
  \/ Backoff
  \/ Validate
  \/ PrimaryRuleBased
  \/ Fallback
  \/ Store

Spec == Init /\ [][Next]_vars

(***************************************************************************)
(* Properties of the AI-backed extractor call and of its callers           *)
(***************************************************************************)
CallIdx == {i \in DOMAIN log : log[i].ev = "call"}
SleepIdx == {i \in DOMAIN log : log[i].ev = "sleep"}
FailedCall(e) == e.ev = "call" /\ e.outcome # "ok"

\* C1: one extractor call invokes the remote generation call at most
\* MAX_RETRIES = 3 times; attempt k+1 is made only after attempts 1..k all
\* failed; the first attempt that succeeds is the last remote call and its
\* parsed result is what _call_gemini returns.
C1_AtMostMaxRetriesAttempts ==
  /\ MAX_RETRIES = 3
  /\ Cardinality(CallIdx) <= MAX_RETRIES
  /\ \A i \in CallIdx :
       /\ log[i].attempt = Cardinality({j \in CallIdx : j <= i})
       /\ \A j \in CallIdx : j < i => log[j].outcome # "ok"
       /\ log[i].outcome = "ok" =>
            /\ i = Len(log)
            /\ parsed = log[i].value
  /\ parsed # NoValue => log # <<>> /\ log[Len(log)].outcome = "ok"

C1_Witness ==
  /\ Cardinality(CallIdx) = 3
  /\ log[Len(log)].outcome = "ok"
  /\ pc = "validate"
  /\ parsed = Payload("P_ok")

\* C2 as stated: a malformed response is never followed by another remote
\* call in the same extractor call.
C2_MalformedNotRetried ==
  \A i \in CallIdx :
    log[i].outcome = "malformed" => \A j \in CallIdx : j <= i

\* C2 amended: a malformed response is caught like a transport failure.  On
\* an attempt before the last the call backs off and invokes the remote call
\* again; it ends the extractor call, with its ValueError, only on the last
\* attempt.
C2_MalformedRetriedLikeTransport ==
  \A i \in CallIdx :
    log[i].outcome = "malformed" =>
      IF log[i].attempt < MAX_RETRIES
      THEN /\ i = Len(log) => pc = "sleep" /\ aiOutcome = NoOutcome
           /\ i < Len(log) => log[i + 1].ev = "sleep"
           /\ i + 1 < Len(log) =>
                /\ log[i + 2].ev = "call"
                /\ log[i + 2].attempt = log[i].attempt + 1
      ELSE /\ i = Len(log)
           /\ aiOutcome = Raised(log[i].cause)

C2_Witness ==
  /\ Len(log) >= 3
  /\ log[1].outcome = "malformed"
  /\ log[3].ev = "call"
  /\ log[3].outcome = "ok"

\* C3: when all MAX_RETRIES attempts failed, process_trial/process_session
\* raises the error of the last attempt and returns nothing; a call returns
\* a result only if one of its attempts succeeded.
C3_ExhaustionRaisesLastCause ==
  /\ (/\ Cardinality(CallIdx) = MAX_RETRIES
      /\ \A i \in CallIdx : log[i].outcome # "ok")
       => /\ aiOutcome = Raised(log[Len(log)].cause)
          /\ parsed = NoValue
  /\ aiOutcome.kind = "returned" => \E i \in CallIdx : log[i].outcome = "ok"

C3_Witness ==
  /\ Cardinality(CallIdx) = MAX_RETRIES
  /\ log[1].cause = "timeout"
  /\ log[Len(log)].cause = "invalid_json"
  /\ aiOutcome = Raised("invalid_json")
  /\ pc = "fallback"

\* a parsed trial result without 'goals', without 'topics', or in which no
\* goal entry has a description
FailsMinimumContent(d) ==
  \/ d.type # "dict"
  \/ ~d.has_goals
  \/ ~d.has_topics
  \/ \A i \in DOMAIN d.goals :
       ~d.goals[i].is_dict \/ d.goals[i].description \in {"ABSENT", ""}

\* C4: a parsed trial result that fails minimum-content validation makes
\* process_trial fail: validation runs after the retry loop has returned,
\* its failure is followed by no further remote call, and no result is
\* returned.
C4_IncompleteTrialIsTerminal ==
  /\ pc = "validate" => log # <<>> /\ log[Len(log)].outcome = "ok"
  /\ (/\ req.kind = "trial"
      /\ parsed # NoValue
      /\ FailsMinimumContent(parsed)
      /\ pc # "validate")
       => /\ aiOutcome.kind = "raised"
          /\ aiOutcome.error \in {"missing_required_fields", "no_valid_goals"}
          /\ log[Len(log)].outcome = "ok"
          /\ log[Len(log)].value = parsed

C4_Witness ==
  /\ req.kind = "trial"
  /\ parsed = Payload("P_nodesc")
  /\ aiOutcome = Raised("no_valid_goals")
  /\ Cardinality(CallIdx) = 2
  /\ pc = "fallback"

\* C5: after failed attempt a < MAX_RETRIES the call sleeps
\* RETRY_BASE_DELAY * 2^(a-1) seconds (1 s after attempt 1, 2 s after
\* attempt 2); every later attempt starts no earlier than the end of the
\* sleep before it; nothing is slept after the last attempt or a success.
C5_BackoffSchedule ==
  /\ \A i \in SleepIdx :
       /\ i > 1
       /\ FailedCall(log[i - 1])
       /\ log[i - 1].attempt = log[i].attempt
       /\ log[i].attempt < MAX_RETRIES
       /\ log[i].start = log[i - 1].end
       /\ log[i].end - log[i].start =
            (IF log[i].attempt = 1 THEN 1 ELSE 2) * RETRY_BASE_DELAY
  /\ \A i \in CallIdx :
       /\ log[i].attempt > 1 =>
            /\ log[i - 1].ev = "sleep"
            /\ log[i - 1].attempt = log[i].attempt - 1
            /\ log[i].start >= log[i - 1].end
       /\ (log[i].outcome = "ok" \/ log[i].attempt = MAX_RETRIES)
            => i = Len(log) /\ pc # "sleep"
       /\ (FailedCall(log[i]) /\ log[i].attempt < MAX_RETRIES)
            => IF i = Len(log) THEN pc = "sleep" ELSE log[i + 1].ev = "sleep"

C5_Witness ==
  /\ Len(log) = 5
  /\ log[2].ev = "sleep" /\ log[2].end - log[2].start = 1
  /\ log[4].ev = "sleep" /\ log[4].end - log[4].start = 2
  /\ log[5].ev = "call" /\ log[5].outcome # "ok"

\* C6: a request never ends with the processor's error: when the processor
\* raised, the rule-based result for the same transcript is the result, and
\* every completed request has inserted its session row.
C6_FallbackAlwaysStores ==
  /\ pc # "failed"
  /\ Len(sessions) = handled
  /\ (aiOutcome.kind = "raised" /\ pc \in {"store", "idle"})
       => result = RuleBased(req.kind, req.transcript)
  /\ (pc = "idle" /\ handled > 0)
       => /\ result # NoValue
          /\ sessions[Len(sessions)] =
               [student_id |-> req.student_id,
                transcript_text |-> req.transcript,
                session_type |-> req.kind,
                extracted_summary |->
                  IF req.kind = "trial" THEN result.summary
                  ELSE result.tutor_insight]

C6_Witness ==
  /\ pc = "idle"
  /\ handled = 2
  /\ aiOutcome = Raised("timeout")
  /\ req.transcript = 2
  /\ sessions[2].extracted_summary = RuleBased_process_trial(2).summary

(***************************************************************************)
(* Scoring formulas: lib/engine/mastery.py                                 *)
(***************************************************************************)
Min2(a, b) == IF a <= b THEN a ELSE b
Max2(a, b) == IF a >= b THEN a ELSE b

\* variant: digits after the first decimal are cut off
Round1Truncating(x) == (x \div 100) * 100

\* round(x, 1): to the nearest tenth (100 thousandths), a tie to the even one
Round1(x) ==
  LET q == x \div 100
      r == x % 100
  IN  IF r < 50 THEN q * 100
      ELSE IF r > 50 THEN (q + 1) * 100
      ELSE IF q % 2 = 0 THEN q * 100 ELSE (q + 1) * 100

\* variant: the floor of the range is not enforced
ClampCeilingOnly(x) == Min2(MAX_SCORE * Unit, x)

\* max(MIN_SCORE, min(MAX_SCORE, x)) (line 38)
Clamp(x) == Max2(MIN_SCORE * Unit, Min2(MAX_SCORE * Unit, x))

\* variant: the weights of improvement and independent solves are swapped
MasteryDeltaSwappedWeights(improvement_factor, error_count, independent_solves) ==
  (improvement_factor * INDEPENDENT_SOLVE_BONUS)
    - (error_count * ERROR_PENALTY_WEIGHT * Unit)
    + (independent_solves * IMPROVEMENT_WEIGHT * Unit)

\* variant: the error penalty is added
MasteryDeltaErrorsAdded(improvement_factor, error_count, independent_solves) ==
  (improvement_factor * IMPROVEMENT_WEIGHT)
    + (error_count * ERROR_PENALTY_WEIGHT * Unit)
    + (independent_solves * INDEPENDENT_SOLVE_BONUS * Unit)

\* delta (lines 32-36), in thousandths
MasteryDelta(improvement_factor, error_count, independent_solves) ==
  (improvement_factor * IMPROVEMENT_WEIGHT)
    - (error_count * ERROR_PENALTY_WEIGHT * Unit)
    + (independent_solves * INDEPENDENT_SOLVE_BONUS * Unit)

update_mastery(prev_score, improvement_factor, error_count, independent_solves) ==
  LET delta == MasteryDelta(improvement_factor, error_count, independent_solves)
      new_score == prev_score + delta
  IN  Clamp(Round1(new_score))

\* inputs of the formula: scores inside and outside [0, 100], improvement
\* factors inside and outside [0, 1], counts up to the extreme 1000
PrevScores == {-50000, 0, 100, 50000, 90000, 99900, 100000, 250000}
Improvements == {-1000, 0, 4, 16, 100, 300, 500, 1000, 1000000}
ErrorCounts == (-1..MaxErrors) \cup {1000}
SolveCounts == (-1..MaxSolves) \cup {1000}

InitMastery ==
  /\ usingGemini = FALSE
  /\ EngineIdle
  /\ m_imp \in Improvements
  /\ m_err \in ErrorCounts
  /\ m_sol \in SolveCounts
  /\ \E p \in PrevScores : m_scores = <<p>>
  /\ RestIdle

\* new_mastery = update_mastery(topic["mastery_score"], ...) and the UPDATE
\* that stores it as the topic's score
ApplyUpdateMastery ==
  /\ Len(m_scores) <= MaxApplications
  /\ m_scores' = Append(m_scores,
                        update_mastery(m_scores[Len(m_scores)],
                                       m_imp, m_err, m_sol))
  /\ UNCHANGED <<m_imp, m_err, m_sol, engineVars, restVars>>

NextMastery == ApplyUpdateMastery

SpecMastery == InitMastery /\ [][NextMastery]_vars

(***************************************************************************)
(* Properties of update_mastery                                            *)
(***************************************************************************)
\* C7: whatever the previous score, improvement, error count and solve
\* count, update_mastery returns a value in [0, 100].
C7_MasteryInRange ==
  \A i \in DOMAIN m_scores :
    i > 1 => m_scores[i] >= 0 /\ m_scores[i] <= 100000

C7_Witness ==
  /\ Len(m_scores) = 2
  /\ m_scores[1] = 250000
  /\ m_err = 1000
  /\ m_scores[2] = 0

\* prev + 5*improvement - 3*errors + 4*solves, in thousandths
C8_Sum == m_scores[1] + 5 * m_imp - 3000 * m_err + 4000 * m_sol

\* C8: update_mastery returns clamp(prev + 5*improvement - 3*errors
\* + 4*solves, 0, 100) at one decimal; update_mastery(50, 0, 0, 0) = 50.0
\* and update_mastery(90, 1.0, 0, 3) = 100.0.
C8_MasteryFormula ==
  Len(m_scores) >= 2 =>
    /\ m_scores[2] =
         Round1(IF C8_Sum < 0 THEN 0
                ELSE IF C8_Sum > 100000 THEN 100000 ELSE C8_Sum)
    /\ (m_scores[1] = 50000 /\ m_imp = 0 /\ m_err = 0 /\ m_sol = 0)
         => m_scores[2] = 50000
    /\ (m_scores[1] = 90000 /\ m_imp = 1000 /\ m_err = 0 /\ m_sol = 3)
         => m_scores[2] = 100000

C8_Witness ==
  /\ Len(m_scores) = 2
  /\ m_scores[1] = 90000 /\ m_imp = 1000 /\ m_err = 0 /\ m_sol = 3
  /\ m_scores[2] = 100000

ZeroVector == m_imp = 0 /\ m_err = 0 /\ m_sol = 0
PrevInRange == m_scores[1] >= 0 /\ m_scores[1] <= 100000

\* C9 as stated: for a previous score in [0, 100], applying the same update
\* twice gives the score of applying it once only for the zero vector.
C9_IdempotentOnlyForZeroVector ==
  (Len(m_scores) >= 3 /\ PrevInRange /\ m_scores[3] = m_scores[2])
    => ZeroVector

\* C9 amended: for a previous score in [0, 100] the zero vector is a no-op,
\* hence idempotent; another vector is idempotent only when its net delta
\* 5*improvement - 3*errors + 4*solves is at most 0.05 in size, so that
\* rounding removes it, or when the first application left the score
\* clamped at the bound the delta pushes towards.
C9_IdempotentCases ==
  (Len(m_scores) >= 3 /\ PrevInRange) =>
    LET d == 5 * m_imp - 3000 * m_err + 4000 * m_sol
    IN  /\ ZeroVector =>
             m_scores[2] = m_scores[1] /\ m_scores[3] = m_scores[2]
        /\ m_scores[3] = m_scores[2] =>
             \/ ZeroVector
             \/ (d <= 50 /\ d >= -50)
             \/ (m_scores[2] = 100000 /\ d > 0)
             \/ (m_scores[2] = 0 /\ d < 0)

C9_Witness ==
  /\ Len(m_scores) = 3
  /\ m_scores[1] = 99900
  /\ m_imp = 0 /\ m_err = 0 /\ m_sol = 1
  /\ m_scores[2] = 100000
  /\ m_scores[3] = 100000

\* C10: with the other arguments fixed, update_mastery does not decrease
\* when improvement or independent_solves grows and does not increase when
\* error_count grows.
C10_MasteryMonotonic ==
  Len(m_scores) >= 2 =>
    /\ \A i2 \in Improvements :
         i2 >= m_imp =>
           update_mastery(m_scores[1], i2, m_err, m_sol) >= m_scores[2]
    /\ \A s2 \in SolveCounts :
         s2 >= m_sol =>
           update_mastery(m_scores[1], m_imp, m_err, s2) >= m_scores[2]
    /\ \A e2 \in ErrorCounts :
         e2 >= m_err =>
           update_mastery(m_scores[1], m_imp, e2, m_sol) <= m_scores[2]

C10_Witness ==
  /\ Len(m_scores) = 2
  /\ m_scores[1] = 50000
  /\ m_imp = 300 /\ m_err = 1 /\ m_sol = 1
  /\ m_scores[2] = 52500
  /\ update_mastery(50000, 300, 2, 1) = 49500
  /\ update_mastery(50000, 500, 1, 1) = 53500
  /\ update_mastery(50000, 300, 1, 2) = 56500

(***************************************************************************)
(* update_confidence: lib/engine/mastery.py                                *)
(***************************************************************************)
\* variant: the two weights are swapped
ConfidenceDeltaSwappedWeights(hesitation_count, positive_signals) ==
  (positive_signals * 4 * Unit) - (hesitation_count * 3 * Unit)

\* delta = (positive_signals * 3.0) - (hesitation_count * 4.0) (line 54)
ConfidenceDelta(hesitation_count, positive_signals) ==
  (positive_signals * 3 * Unit) - (hesitation_count * 4 * Unit)

\* variant: the new score is rounded but not clamped
update_confidence_unclamped(prev_confidence, hesitation_count, positive_signals) ==
  Round1(prev_confidence + ConfidenceDelta(hesitation_count, positive_signals))

update_confidence(prev_confidence, hesitation_count, positive_signals) ==
  LET delta == ConfidenceDelta(hesitation_count, positive_signals)
      new_score == prev_confidence + delta
  IN  Clamp(Round1(new_score))

\* previous confidence values: those of PrevScores and two that are not
\* one-decimal values (50.04 and 50.16)
ConfPrevScores == PrevScores \cup {50040, 50160}

InitConfidence ==
  /\ usingGemini = FALSE
  /\ EngineIdle
  /\ MasteryIdle
  /\ LaterIdle
  /\ SeverityIdle /\ BlocksIdle /\ GoalsIdle /\ CurriculumIdle
  /\ EngagementIdle
  /\ c_hes \in ErrorCounts
  /\ c_pos \in SolveCounts
  /\ \E p \in ConfPrevScores : c_scores = <<p>>

\* new_confidence = update_confidence(topic["confidence_score"], ...) and the
\* UPDATE that stores it (app.py lines 540-548)
ApplyUpdateConfidence ==
  /\ Len(c_scores) <= MaxApplications
  /\ c_scores' = Append(c_scores,
                        update_confidence(c_scores[Len(c_scores)],
                                          c_hes, c_pos))
  /\ UNCHANGED <<c_hes, c_pos, engineVars, masteryVars, severityVars,
                 blockVars, goalVars, curriculumVars, engagementVars, laterVars>>

NextConfidence == ApplyUpdateConfidence

SpecConfidence == InitConfidence /\ [][NextConfidence]_vars

\* prev + 3*positive_signals - 4*hesitation_count, in thousandths
C11_Sum == c_scores[1] + 3000 * c_pos - 4000 * c_hes

\* C11: update_confidence returns clamp(prev + 3*positive_signals
\* - 4*hesitation_count, 0, 100) at one decimal, so a value in [0, 100].
C11_ConfidenceFormula ==
  \A i \in DOMAIN c_scores :
    i > 1 =>
      /\ c_scores[i] >= 0 /\ c_scores[i] <= 100000
      /\ i = 2 =>
           c_scores[2] =
             Round1(IF C11_Sum < 0 THEN 0
                    ELSE IF C11_Sum > 100000 THEN 100000 ELSE C11_Sum)

C11_Witness ==
  /\ Len(c_scores) = 2
  /\ c_scores[1] = 50160
  /\ c_hes = 1 /\ c_pos = 3
  /\ c_scores[2] = 55200

(***************************************************************************)
(* compute_severity: lib/engine/mental_blocks.py                           *)
(***************************************************************************)
\* largest frequency_count handed to compute_severity
MaxFrequency == 12

ESCALATION_THRESHOLD == 3
\* SEVERITY_INCREMENT = 1.5, in thousandths
SEVERITY_INCREMENT == 1500
MAX_SEVERITY == 10

\* variant: the frequency term is not capped at 5.0
FrequencyBaseUncapped(frequency_count) == frequency_count * Unit

\* base = min(frequency_count * 1.0, 5.0) (line 97)
FrequencyBase(frequency_count) == Min2(frequency_count * Unit, 5 * Unit)

compute_severity(frequency_count, has_avoidance, has_emotional) ==
  LET base == FrequencyBase(frequency_count)
      escalated == IF frequency_count >= ESCALATION_THRESHOLD
                   THEN base + SEVERITY_INCREMENT ELSE base
      avoided == IF has_avoidance THEN escalated + 2 * Unit ELSE escalated
      emotional == IF has_emotional THEN avoided + 1500 ELSE avoided
  IN  Min2(emotional, MAX_SEVERITY * Unit)

Frequencies == -1..MaxFrequency

InitSeverity ==
  /\ usingGemini = FALSE
  /\ EngineIdle
  /\ MasteryIdle
  /\ LaterIdle
  /\ ConfIdle /\ BlocksIdle /\ GoalsIdle /\ CurriculumIdle /\ EngagementIdle
  /\ sv_f \in Frequencies
  /\ sv_av \in BOOLEAN
  /\ sv_em \in BOOLEAN
  /\ sv_out = <<>>

\* one call compute_severity(frequency_count, has_avoidance, has_emotional)
CallComputeSeverity ==
  /\ sv_out = <<>>
  /\ sv_out' = <<compute_severity(sv_f, sv_av, sv_em)>>
  /\ UNCHANGED <<sv_f, sv_av, sv_em, engineVars, masteryVars, confVars,
                 blockVars, goalVars, curriculumVars, engagementVars, laterVars>>

NextSeverity == CallComputeSeverity

SpecSeverity == InitSeverity /\ [][NextSeverity]_vars

\* min(f, 5) + (1.5 if f >= 3) + (2.0 if avoidance) + (1.5 if emotional),
\* in thousandths
C12_Sum ==
  (IF sv_f < 5 THEN sv_f * 1000 ELSE 5000)
  + (IF sv_f >= 3 THEN 1500 ELSE 0)
  + (IF sv_av THEN 2000 ELSE 0)
  + (IF sv_em THEN 1500 ELSE 0)

\* C12: compute_severity(f, avoidance, emotional) depends on its three inputs
\* only and equals min(min(f, 5) + (1.5 if f >= 3) + (2.0 if avoidance)
\* + (1.5 if emotional), 10.0); it never exceeds 10.0, is in [0, 10] for
\* f >= 0, is 0.0 for (0, False, False) and 10.0 for (5, True, True).
C12_SeverityFormula ==
  sv_out # <<>> =>
    /\ sv_out[1] = (IF C12_Sum < 10000 THEN C12_Sum ELSE 10000)
    /\ sv_out[1] <= 10000
    /\ sv_f >= 0 => sv_out[1] >= 0
    /\ (sv_f = 0 /\ ~sv_av /\ ~sv_em) => sv_out[1] = 0
    /\ (sv_f = 5 /\ sv_av /\ sv_em) => sv_out[1] = 10000

C12_Witness ==
  /\ sv_out = <<10000>>
  /\ sv_f = 5 /\ sv_av /\ sv_em

(***************************************************************************)
(* detect_mental_block_signals (lib/engine/mental_blocks.py) and the       *)
(* aggregation of its signals into table mental_blocks (app.py,            *)
(* process_session)                                                        *)
(***************************************************************************)
\* session transcripts processed in one behaviour
MaxSessions == 2

\* phrases of the three lists, in the lists' order (a selection: the lists
\* have 11, 8 and 12 entries)
AVOIDANCE_PHRASES == <<"can we skip", "i hate", "i give up">>
EMOTIONAL_PHRASES == <<"i'm stressed">>
HESITATION_PHRASES == <<"wait", "umm", "uh", "i forgot">>

Range(s) == {s[i] : i \in DOMAIN s}

\* the hesitation phrases of a transcript: the first k of the list
HesitationSets ==
  {Range(SubSeq(HESITATION_PHRASES, 1, k)) : k \in 0..Len(HESITATION_PHRASES)}

\* a lowercased transcript, as the detector reads it: the phrases of each
\* list that occur in it as substrings
BlockTranscripts ==
  [avoidance : SUBSET Range(AVOIDANCE_PHRASES),
   emotional : SUBSET Range(EMOTIONAL_PHRASES),
   hesitation : HesitationSets]

\* descriptions are texts, kept as their lowercased words; the phrase quoted
\* in a description is one word
AvoidanceSignal(phrase) ==
  [description |-> <<"avoidance", "language", "detected:", phrase>>,
   type |-> "avoidance",
   severity |-> 3 * Unit]

EmotionalSignal(phrase) ==
  [description |-> <<"emotional", "distress", "signal:", phrase>>,
   type |-> "emotional",
   severity |-> 4 * Unit]

HesitationSignal(hesitation_count) ==
  [description |-> <<"high", "hesitation", "density",
                     ToString(hesitation_count), "signals">>,
   type |-> "hesitation",
   severity |-> 2 * Unit + hesitation_count * 500]

\* variant: a signal needs more than three phrases
HesitationDenseAboveThree(hesitation_count) == hesitation_count > 3

\* if hesitation_count >= 3 (line 76)
HesitationDense(hesitation_count) == hesitation_count >= 3

detect_mental_block_signals(transcript_lower) ==
  LET avoided == SelectSeq(AVOIDANCE_PHRASES,
                           LAMBDA p : p \in transcript_lower.avoidance)
      emotions == SelectSeq(EMOTIONAL_PHRASES,
                            LAMBDA p : p \in transcript_lower.emotional)
      hesitation_count ==
        Len(SelectSeq(HESITATION_PHRASES,
                      LAMBDA p : p \in transcript_lower.hesitation))
  IN  [i \in DOMAIN avoided |-> AvoidanceSignal(avoided[i])]
      \o [i \in DOMAIN emotions |-> EmotionalSignal(emotions[i])]
      \o (IF HesitationDense(hesitation_count)
          THEN <<HesitationSignal(hesitation_count)>> ELSE <<>>)

\* description LIKE '%pattern%': the pattern occurs in the description,
\* letter case ignored (descriptions are kept lowercased)
Like(description, pattern) ==
  \E i \in DOMAIN description : description[i] = pattern

\* variant: the SELECT does not ask for resolved = 0
MatchingBlocksAlsoResolved(table, student_id, signal) ==
  {i \in DOMAIN table :
     /\ table[i].student_id = student_id
     /\ Like(table[i].description, signal.type)}

\* the rows the SELECT of line 553 matches
MatchingBlocks(table, student_id, signal) ==
  {i \in DOMAIN table :
     /\ table[i].student_id = student_id
     /\ Like(table[i].description, signal.type)
     /\ table[i].resolved = 0}

\* one pass of the loop body (lines 552-572) for one signal; st holds the
\* table and, per row, the sessions in which the row was detected
StoreSignal(st, signal, student_id, session_no) ==
  LET found == MatchingBlocks(st.table, student_id, signal)
  IN  IF found # {}
      THEN LET i == CHOOSE k \in found : \A j \in found : k <= j
               existing == st.table[i]
               new_freq == existing.frequency_count + 1
               has_avoidance == signal.type = "avoidance"
               has_emotional == signal.type = "emotional"
               new_severity ==
                 compute_severity(new_freq, has_avoidance, has_emotional)
           IN  [table |->
                  [st.table EXCEPT ![i] =
                     [existing EXCEPT !.frequency_count = new_freq,
                                      !.severity_score = new_severity]],
                detectedIn |->
                  [st.detectedIn EXCEPT ![i] = @ \cup {session_no}]]
      ELSE [table |->
              Append(st.table,
                     [id |-> Len(st.table) + 1,
                      student_id |-> student_id,
                      description |-> signal.description,
                      first_detected |-> session_no,
                      frequency_count |-> 1,
                      severity_score |-> signal.severity,
                      resolved |-> 0]),
            detectedIn |-> Append(st.detectedIn, {session_no})]

\* for signal in result.get("mental_block_signals", []) (line 551)
RECURSIVE StoreSignals(_, _, _, _)
StoreSignals(st, signals, student_id, session_no) ==
  IF signals = <<>> THEN st
  ELSE StoreSignals(StoreSignal(st, Head(signals), student_id, session_no),
                    Tail(signals), student_id, session_no)

InitBlocks ==
  /\ usingGemini = FALSE
  /\ EngineIdle
  /\ MasteryIdle
  /\ RestIdle

\* process_session with the rule-based processor: the signals of one
\* transcript are detected and folded into table mental_blocks
ProcessSessionBlocks(transcript, student_id) ==
  /\ mb_count < MaxSessions
  /\ LET signals == detect_mental_block_signals(transcript)
         st == StoreSignals([table |-> mb_table, detectedIn |-> mb_detectedIn],
                            signals, student_id, mb_count + 1)
     IN  /\ mb_signals' = signals
         /\ mb_table' = st.table
         /\ mb_detectedIn' = st.detectedIn
  /\ mb_transcript' = transcript
  /\ mb_count' = mb_count + 1
  /\ UNCHANGED <<engineVars, masteryVars, confVars, severityVars, goalVars,
                 curriculumVars, engagementVars, laterVars>>

NextBlocks ==
  \E transcript \in BlockTranscripts, student_id \in StudentIds :
    ProcessSessionBlocks(transcript, student_id)

SpecBlocks == InitBlocks /\ [][NextBlocks]_vars

\* C13: the escalation increment is applied to a persisted block only once
\* the block has been detected in at least 3 sessions: frequency_count
\* counts sessions, so one session raises it by at most 1 and a block first
\* detected in a session does not reach the threshold in that session.
C13_EscalationOnlyAfterThreeSessions ==
  \A i \in DOMAIN mb_table :
    /\ mb_table[i].frequency_count <= Cardinality(mb_detectedIn[i])
    /\ mb_table[i].frequency_count >= ESCALATION_THRESHOLD =>
         Cardinality(mb_detectedIn[i]) >= 3

\* the hesitation signals of the session processed last
C15_HesitationSignals ==
  SelectSeq(mb_signals, LAMBDA sg : sg.type = "hesitation")

\* C15: a transcript with n >= 3 hesitation phrases yields exactly one signal
\* of type hesitation, of severity 2.0 + 0.5*n >= 3.5; with fewer than 3
\* phrases it yields none.
C15_HesitationDensity ==
  mb_count > 0 =>
    LET n == Cardinality(mb_transcript.hesitation)
    IN  IF n >= 3
        THEN /\ Len(C15_HesitationSignals) = 1
             /\ C15_HesitationSignals[1].severity = 2000 + 500 * n
             /\ C15_HesitationSignals[1].severity >= 3500
        ELSE C15_HesitationSignals = <<>>

C15_Witness ==
  /\ mb_count > 0
  /\ Cardinality(mb_transcript.hesitation) = 3
  /\ Len(C15_HesitationSignals) = 1
  /\ C15_HesitationSignals[1].severity = 3500

(***************************************************************************)
(* RuleBasedProcessor._extract_goals: lib/engine/rule_based.py             *)
(***************************************************************************)
\* captures of the goal patterns in one transcript
MaxMatches == 4

\* topics of TOPIC_KEYWORDS, in the dictionary's order (a selection: the
\* dictionary has 17 topics)
TOPIC_KEYWORDS == <<"Algebra", "Fractions", "Geometry", "Statistics">>

\* topic.lower()
TopicLower(topic) ==
  CASE topic = "Algebra" -> "algebra"
    [] topic = "Fractions" -> "fractions"
    [] topic = "Geometry" -> "geometry"
    [] topic = "Statistics" -> "statistics"

\* match.group(1) of a goal pattern on the lowercased transcript: the text
\* captured, with or without white space after it
Capture(text, padded) == [text |-> text, padded |-> padded]

Captures ==
  {Capture("her grades", FALSE),
   Capture("feel more confident", FALSE),
   Capture("feel more confident", TRUE),
   Capture("finish homework on his own", FALSE),
   Capture("enjoy maths lessons", FALSE),
   Capture("build proficiency in statistics", FALSE)}

\* match.group(1).strip()
Strip(capture) == capture.text

\* a description is kept as its lowercase text and the way it is cased
\* str.capitalize()
Capitalize(text) == [lower |-> text, cased |-> "capitalized"]

\* str.lower()
Lower(desc) == desc.lower

ExplicitGoal(desc) == [description |-> desc, deadline |-> "None"]

\* f"Build proficiency in {topic}"
ImplicitDescription(topic) ==
  [lower |-> "build proficiency in " \o TopicLower(topic),
   cased |-> "as written"]

ImplicitGoal(topic) ==
  [description |-> ImplicitDescription(topic), deadline |-> "None"]

FallbackGoal ==
  [description |-> [lower |-> "build overall math proficiency",
                    cased |-> "as written"],
   deadline |-> "None"]

\* for pattern in goal_patterns: for match in re.finditer(pattern, lower)
\* (lines 170-179); st holds goals and seen
RECURSIVE ScanMatches(_, _)
ScanMatches(st, matches) ==
  IF matches = <<>> THEN st
  ELSE LET desc == Capitalize(Strip(Head(matches)))
           keep == Len(desc.lower) > 10 /\ Lower(desc) \notin st.seen
           next == IF keep
                   THEN [goals |-> Append(st.goals, ExplicitGoal(desc)),
                         seen |-> st.seen \cup {Lower(desc)}]
                   ELSE st
       IN  ScanMatches(next, Tail(matches))

\* _detect_topics: the topics with a keyword in the transcript, in the
\* dictionary's order
_detect_topics(present) ==
  SelectSeq(TOPIC_KEYWORDS, LAMBDA topic : topic \in present)

\* for topic in topics[:3] (lines 183-191)
RECURSIVE ScanTopics(_, _)
ScanTopics(st, topics) ==
  IF topics = <<>> THEN st
  ELSE LET desc == ImplicitDescription(Head(topics))
           next == IF Lower(desc) \notin st.seen
                   THEN [goals |-> Append(st.goals, ImplicitGoal(Head(topics))),
                         seen |-> st.seen \cup {Lower(desc)}]
                   ELSE st
       IN  ScanTopics(next, Tail(topics))

\* variant: the list is cut after seven goals
CapGoalsAtSeven(goals) == SubSeq(goals, 1, Min2(7, Len(goals)))

\* goals[:6] (line 201)
CapGoals(goals) == SubSeq(goals, 1, Min2(6, Len(goals)))

_extract_goals(matches, present) ==
  LET explicit == ScanMatches([goals |-> <<>>, seen |-> {}], matches)
      topics == _detect_topics(present)
      implicit == ScanTopics(explicit,
                             SubSeq(topics, 1, Min2(3, Len(topics))))
      goals == IF implicit.goals = <<>> THEN <<FallbackGoal>>
               ELSE implicit.goals
  IN  CapGoals(goals)

\* the captures of one transcript, in the order the patterns find them
MatchLists == UNION {[1..k -> Captures] : k \in 0..MaxMatches}

InitGoals ==
  /\ usingGemini = FALSE
  /\ EngineIdle
  /\ MasteryIdle
  /\ LaterIdle
  /\ ConfIdle /\ SeverityIdle /\ BlocksIdle /\ CurriculumIdle
  /\ EngagementIdle
  /\ gl_matches \in MatchLists
  /\ gl_topics \in SUBSET Range(TOPIC_KEYWORDS)
  /\ gl_goals = <<>>

\* goals = self._extract_goals(lower, lines) (process_trial, line 97)
CallExtractGoals ==
  /\ gl_goals = <<>>
  /\ gl_goals' = <<_extract_goals(gl_matches, gl_topics)>>
  /\ UNCHANGED <<gl_matches, gl_topics, engineVars, masteryVars, confVars,
                 severityVars, blockVars, curriculumVars, engagementVars, laterVars>>

NextGoals == CallExtractGoals

SpecGoals == InitGoals /\ [][NextGoals]_vars

\* no capture is long enough to become a goal
C14_NoExplicitGoal ==
  \A i \in DOMAIN gl_matches : Len(gl_matches[i].text) <= 10

\* C14: rule-based process_trial returns between 1 and 6 goals; when neither
\* the goal patterns nor the detected topics yield a goal, exactly one
\* generic fallback goal is returned.
C14_GoalCount ==
  gl_goals # <<>> =>
    /\ Len(gl_goals[1]) >= 1
    /\ Len(gl_goals[1]) <= 6
    /\ (C14_NoExplicitGoal /\ gl_topics = {}) =>
         /\ Len(gl_goals[1]) = 1
         /\ gl_goals[1][1].description.lower = "build overall math proficiency"

C14_Witness ==
  /\ gl_goals # <<>>
  /\ gl_matches = <<Capture("feel more confident", FALSE),
                    Capture("finish homework on his own", FALSE),
                    Capture("enjoy maths lessons", FALSE),
                    Capture("build proficiency in statistics", FALSE)>>
  /\ gl_topics = {"Algebra", "Fractions", "Geometry", "Statistics"}
  /\ Len(gl_goals[1]) = 6
  /\ gl_goals[1][6] = ImplicitGoal("Fractions")

(***************************************************************************)
(* RuleBasedProcessor._infer_curriculum: lib/engine/rule_based.py          *)
(***************************************************************************)
CompetitionTerms == {"amc", "competition", "olympiad", "mathcounts"}
SatActTerms == {"sat", "act", "psat"}
SchoolTerms == {"common core", "state test", "school"}
AdvancedTerms == {"ap", "calculus", "advanced"}

CurriculumTerms ==
  CompetitionTerms \cup SatActTerms \cup SchoolTerms \cup AdvancedTerms

\* a lowercased transcript, as _infer_curriculum reads it: the terms that
\* occur in it as substrings ("psat" contains "sat")
CurriculumTranscripts ==
  {terms \in SUBSET CurriculumTerms : "psat" \in terms => "sat" \in terms}

\* any(w in lower for w in [...])
AnyIn(words, lower) == words \cap lower # {}

\* variant: the school terms are tested before the SAT/ACT terms
_infer_curriculum_school_first(lower) ==
  IF AnyIn(CompetitionTerms, lower) THEN "Competition Math (AMC/MathCounts)"
  ELSE IF AnyIn(SchoolTerms, lower) THEN "Common Core Aligned"
  ELSE IF AnyIn(SatActTerms, lower) THEN "SAT/ACT Prep"
  ELSE IF AnyIn(AdvancedTerms, lower) THEN "Advanced / AP Prep"
  ELSE "General Math Proficiency"

_infer_curriculum(lower) ==
  IF AnyIn(CompetitionTerms, lower) THEN "Competition Math (AMC/MathCounts)"
  ELSE IF AnyIn(SatActTerms, lower) THEN "SAT/ACT Prep"
  ELSE IF AnyIn(SchoolTerms, lower) THEN "Common Core Aligned"
  ELSE IF AnyIn(AdvancedTerms, lower) THEN "Advanced / AP Prep"
  ELSE "General Math Proficiency"

InitCurriculum ==
  /\ usingGemini = FALSE
  /\ EngineIdle
  /\ MasteryIdle
  /\ LaterIdle
  /\ ConfIdle /\ SeverityIdle /\ BlocksIdle /\ GoalsIdle /\ EngagementIdle
  /\ cu_terms \in CurriculumTranscripts
  /\ cu_out = <<>>

\* curriculum = self._infer_curriculum(lower) (process_trial, line 103)
CallInferCurriculum ==
  /\ cu_out = <<>>
  /\ cu_out' = <<_infer_curriculum(cu_terms)>>
  /\ UNCHANGED <<cu_terms, engineVars, masteryVars, confVars, severityVars,
                 blockVars, goalVars, engagementVars, laterVars>>

NextCurriculum == CallInferCurriculum

SpecCurriculum == InitCurriculum /\ [][NextCurriculum]_vars

C18_Occurs(words) == \E w \in words : w \in cu_terms

\* C18: curriculum inference is total and priority-ordered: competition
\* terms win whatever else occurs, then SAT/ACT terms, then school terms,
\* then advanced terms, else the general value; the result is always one of
\* the five values.
C18_CurriculumPriority ==
  cu_out # <<>> =>
    /\ cu_out[1] \in {"Competition Math (AMC/MathCounts)", "SAT/ACT Prep",
                      "Common Core Aligned", "Advanced / AP Prep",
                      "General Math Proficiency"}
    /\ C18_Occurs({"amc", "competition", "olympiad", "mathcounts"}) <=>
         cu_out[1] = "Competition Math (AMC/MathCounts)"
    /\ (/\ ~C18_Occurs({"amc", "competition", "olympiad", "mathcounts"})
        /\ C18_Occurs({"sat", "act", "psat"})) <=>
         cu_out[1] = "SAT/ACT Prep"
    /\ (/\ ~C18_Occurs({"amc", "competition", "olympiad", "mathcounts",
                        "sat", "act", "psat"})
        /\ C18_Occurs({"common core", "state test", "school"})) <=>
         cu_out[1] = "Common Core Aligned"
    /\ (/\ ~C18_Occurs({"amc", "competition", "olympiad", "mathcounts",
                        "sat", "act", "psat",
                        "common core", "state test", "school"})
        /\ C18_Occurs({"ap", "calculus", "advanced"})) <=>
         cu_out[1] = "Advanced / AP Prep"
    /\ cu_terms = {} <=> cu_out[1] = "General Math Proficiency"

C18_Witness ==
  /\ cu_terms = {"sat", "school", "advanced"}
  /\ cu_out = <<"SAT/ACT Prep">>

(***************************************************************************)
(* engagement_score: RuleBasedProcessor._score_engagement                  *)
(* (lib/engine/rule_based.py) and its sanitising in                        *)
(* GeminiProcessor._validate_session_result (lib/engine/gemini_processor.py)*)
(***************************************************************************)
\* len(ENGAGEMENT_POSITIVE), len(ENGAGEMENT_NEGATIVE)
PositivePhrases == 10
NegativePhrases == 7

\* word counts of transcripts; the phrases of both lists have 40 words
WordCounts == {0, 40, 123, 399, 400, 1000}

\* variant: negative phrases add to the score
EngagementSumNegativeAdds(positive, negative, length_score) ==
  50 * Unit + length_score + (positive * 8 * Unit) + (negative * 12 * Unit)

\* engagement = 50 + length_score + (positive * 8) - (negative * 12)
EngagementSum(positive, negative, length_score) ==
  50 * Unit + length_score + (positive * 8 * Unit) - (negative * 12 * Unit)

\* max(0, min(100, ...)) (line 289)
ClampEngagement(x) == Max2(0, Min2(100 * Unit, x))

_score_engagement(positive, negative, word_count) ==
  LET length_score == Min2(40 * Unit, (word_count * Unit) \div 10)
      engagement == EngagementSum(positive, negative, length_score)
  IN  ClampEngagement(Round1(engagement))

\* the entry engagement_score of the parsed response: a JSON value
Absent == [kind |-> "absent"]
Null == [kind |-> "null"]
Number(v) == [kind |-> "number", v |-> v]
NaN == [kind |-> "nan"]
HugeInt == [kind |-> "huge int"]
Bool(b) == [kind |-> "bool", b |-> b]
Text(numeric, v) == [kind |-> "text", numeric |-> numeric, v |-> v]
List == [kind |-> "list"]

RawScores ==
  {Absent, Null, NaN, HugeInt, Bool(TRUE), List,
   Text(FALSE, 0), Text(TRUE, 85000),
   Number(-5000), Number(0), Number(72500), Number(100000), Number(250000)}

\* float(x): a float (a number or nan) or the exception raised
Float(x) ==
  CASE x.kind = "number" -> [ok |-> TRUE, nan |-> FALSE, v |-> x.v]
    [] x.kind = "nan" -> [ok |-> TRUE, nan |-> TRUE, v |-> 0]
    [] x.kind = "bool" ->
         [ok |-> TRUE, nan |-> FALSE, v |-> IF x.b THEN Unit ELSE 0]
    [] x.kind = "text" ->
         IF x.numeric THEN [ok |-> TRUE, nan |-> FALSE, v |-> x.v]
         ELSE [ok |-> FALSE, error |-> "ValueError"]
    [] x.kind = "huge int" -> [ok |-> FALSE, error |-> "OverflowError"]
    [] OTHER -> [ok |-> FALSE, error |-> "TypeError"]

\* a < b on floats: false when either is nan
FloatLess(a, b) == ~a.nan /\ ~b.nan /\ a.v < b.v

\* min(a, b) and max(a, b) of Python: the first argument unless the second is
\* smaller (larger)
PyMin(a, b) == IF FloatLess(b, a) THEN b ELSE a
PyMax(a, b) == IF FloatLess(a, b) THEN b ELSE a

FloatOf(v) == [ok |-> TRUE, nan |-> FALSE, v |-> v]

\* variant: the score is not capped at 100.0
ClampScoreFloorOnly(score) == PyMax(FloatOf(0), score).v

\* max(0.0, min(100.0, score)) (line 197)
ClampScore(score) == PyMax(FloatOf(0), PyMin(FloatOf(100 * Unit), score)).v

\* lines 192-197 of _validate_session_result: the score stored, or the
\* exception that leaves the validator
ValidateEngagementScore(raw) ==
  LET got == IF raw = Absent THEN Number(50 * Unit) ELSE raw
      converted == Float(got)
  IN  IF converted.ok
      THEN [ok |-> TRUE, engagement_score |-> ClampScore(converted)]
      ELSE IF converted.error \in {"ValueError", "TypeError"}
      THEN [ok |-> TRUE, engagement_score |-> ClampScore(FloatOf(50 * Unit))]
      ELSE [ok |-> FALSE, error |-> converted.error]

\* a session request: the processor in use, the transcript as
\* _score_engagement reads it and, with the AI processor, the entry
\* engagement_score of the response
InitEngagement ==
  /\ usingGemini \in BOOLEAN
  /\ EngineIdle
  /\ MasteryIdle
  /\ LaterIdle
  /\ ConfIdle /\ SeverityIdle /\ BlocksIdle /\ GoalsIdle /\ CurriculumIdle
  /\ eg_pos \in 0..PositivePhrases
  /\ eg_neg \in 0..NegativePhrases
  /\ eg_words \in WordCounts
  /\ eg_words = 0 => (eg_pos = 0 /\ eg_neg = 0)
  /\ eg_raw \in (IF usingGemini THEN RawScores ELSE {NoValue})
  /\ eg_pc = "start"
  /\ eg_out = <<>>

\* processor.process_session with the GeminiProcessor: the validator
\* returns the result or raises (app.py line 508, gemini_processor.py 192-197)
ValidateSessionEngagement ==
  /\ usingGemini
  /\ eg_pc = "start"
  /\ LET validated == ValidateEngagementScore(eg_raw)
     IN  IF validated.ok
         THEN /\ eg_out' = <<validated.engagement_score>>
              /\ eg_pc' = "validated"
         ELSE /\ eg_out' = eg_out
              /\ eg_pc' = "fallback"
  /\ UNCHANGED <<eg_pos, eg_neg, eg_words, eg_raw, engineVars, masteryVars,
                 confVars, severityVars, blockVars, goalVars, curriculumVars, laterVars>>

\* process_session of the RuleBasedProcessor, as the processor in use or as
\* the fallback after an exception (app.py lines 508-510)
ScoreSessionEngagement ==
  /\ \/ ~usingGemini /\ eg_pc = "start"
     \/ eg_pc = "fallback"
  /\ eg_out' = <<_score_engagement(eg_pos, eg_neg, eg_words)>>
  /\ eg_pc' = "scored"
  /\ UNCHANGED <<eg_pos, eg_neg, eg_words, eg_raw, engineVars, masteryVars,
                 confVars, severityVars, blockVars, goalVars, curriculumVars, laterVars>>

NextEngagement ==
  \/ ValidateSessionEngagement
  \/ ScoreSessionEngagement

SpecEngagement == InitEngagement /\ [][NextEngagement]_vars

\* C16: the engagement_score of every session result of either extractor is
\* in [0, 100]; the validator clamps the model's number and replaces a missing
\* value or one that is not a number (null, a list, a non-numeric text) by 50.
C16_EngagementInRange ==
  eg_out # <<>> =>
    /\ eg_out[1] >= 0
    /\ eg_out[1] <= 100000
    /\ (eg_pc = "validated"
        /\ eg_raw.kind \in {"absent", "null", "list"}) => eg_out[1] = 50000
    /\ (eg_pc = "validated" /\ eg_raw.kind = "text" /\ ~eg_raw.numeric) =>
         eg_out[1] = 50000
    /\ (eg_pc = "validated" /\ eg_raw.kind = "number") =>
         eg_out[1] = (IF eg_raw.v < 0 THEN 0
                      ELSE IF eg_raw.v > 100000 THEN 100000 ELSE eg_raw.v)

C16_Witness ==
  /\ eg_pc = "validated"
  /\ eg_raw = Number(250000)
  /\ eg_out = <<100000>>

\* C17: with the word count fixed, the rule-based engagement score does not
\* decrease when more positive phrases match and does not increase when more
\* negative phrases match.
C17_EngagementMonotonic ==
  eg_pc = "scored" =>
    /\ \A p2 \in 0..PositivePhrases :
         p2 >= eg_pos => _score_engagement(p2, eg_neg, eg_words) >= eg_out[1]
    /\ \A n2 \in 0..NegativePhrases :
         n2 >= eg_neg => _score_engagement(eg_pos, n2, eg_words) <= eg_out[1]

C17_Witness ==
  /\ eg_pc = "scored"
  /\ eg_pos = 1 /\ eg_neg = 1 /\ eg_words = 123
  /\ eg_out = <<58300>>
  /\ _score_engagement(2, 1, 123) = 66300
  /\ _score_engagement(1, 2, 123) = 46300

(***************************************************************************)
(* GeminiProcessor._validate_trial_result: what a validated trial result   *)
(* holds                                                                   *)
(***************************************************************************)
\* process_trial of the GeminiProcessor has returned a validated result
TrialValidated == req.kind = "trial" /\ aiOutcome.kind = "returned"

C19_HasDescription(g) == g.is_dict /\ g.description # "ABSENT" /\ g.description # ""

\* C19: the goals of a validated trial result are exactly the input entries
\* with a non-empty description, in their original order; entries without
\* one are dropped; if none remains, validation fails and no result with
\* zero goals is returned.
C19_GoalsFiltered ==
  /\ TrialValidated =>
       /\ aiOutcome.value.goals = SelectSeq(parsed.goals, C19_HasDescription)
       /\ aiOutcome.value.goals # <<>>
  /\ (/\ req.kind = "trial"
      /\ parsed # NoValue
      /\ pc # "validate"
      /\ parsed.type = "dict" /\ parsed.has_goals /\ parsed.has_topics
      /\ SelectSeq(parsed.goals, C19_HasDescription) = <<>>)
       => aiOutcome = Raised("no_valid_goals")

C19_Witness ==
  /\ TrialValidated
  /\ parsed = Payload("P_mixed")
  /\ aiOutcome.value.goals = <<Goal("g1")>>

\* C20 as stated: a validated trial result has a non-empty topics
\* collection.
C20_ValidatedTopicsNonEmpty ==
  TrialValidated => aiOutcome.value.topics # <<>>

C20_HasName(t) == t.is_dict /\ t.name # "ABSENT" /\ t.name # ""

\* C20, amended: the key topics must be present, but the topics of a
\* validated trial result are the input entries that have a name, in their
\* order, and may be none: an empty list after filtering is returned, not
\* rejected.
C20_TopicsFiltered ==
  /\ TrialValidated =>
       /\ parsed.has_topics
       /\ aiOutcome.value.topics = SelectSeq(parsed.topics, C20_HasName)
  /\ (/\ req.kind = "trial"
      /\ parsed # NoValue
      /\ pc # "validate"
      /\ parsed.type = "dict" /\ ~parsed.has_topics)
       => aiOutcome = Raised("missing_required_fields")

C20_Witness ==
  /\ TrialValidated
  /\ parsed = Payload("P_emptytopics")
  /\ aiOutcome.value.topics = <<>>
  /\ aiOutcome.value.goals = <<Goal("g1")>>

(***************************************************************************)
(* The Response Validator on results with all their keys:                  *)
(* GeminiProcessor._validate_trial_result and _validate_session_result     *)
(* (lib/engine/gemini_processor.py).  A dict is a function from its keys   *)
(* to values; a text-or-None value is a string, None being "None"; a       *)
(* numeric entry is a JSON value as in RawScores.                          *)
(***************************************************************************)
\* d.get(key, default)
Get(d, key, default) == IF key \in DOMAIN d THEN d[key] ELSE default

\* d.setdefault(key, default)
SetDefaultKey(d, key, default) ==
  IF key \in DOMAIN d THEN d ELSE d @@ (key :> default)

\* d[key] = value
Put(d, key, value) ==
  IF key \in DOMAIN d THEN [d EXCEPT ![key] = value] ELSE d @@ (key :> value)

\* an entry of a list that is not a JSON object
NotADict == [not_a_dict |-> TRUE]

\* isinstance(e, dict) and e.get(key)
DictWith(e, key) ==
  /\ "not_a_dict" \notin DOMAIN e
  /\ key \in DOMAIN e
  /\ e[key] # ""

\* the JSON values a numeric entry of the response may hold; a numeric text
\* with a whole value is written without decimal point ("7"), any other
\* with one ("7.5")
RawValues ==
  RawScores
    \cup {Bool(FALSE), Text(TRUE, 7000), Text(TRUE, 7500),
          Number(-3000), Number(1000), Number(5000), Number(7900),
          Number(10000), Number(11000)}

\* int(x): an int or the exception raised
PyInt(x) ==
  CASE x.kind = "number" ->
         [ok |-> TRUE,
          v |-> IF x.v >= 0 THEN x.v - (x.v % Unit)
                ELSE -((-x.v) - ((-x.v) % Unit))]
    [] x.kind = "bool" -> [ok |-> TRUE, v |-> IF x.b THEN Unit ELSE 0]
    [] x.kind = "huge int" -> [ok |-> TRUE, v |-> 1000000 * Unit]
    [] x.kind = "nan" -> [ok |-> FALSE, error |-> "ValueError"]
    [] x.kind = "text" ->
         IF x.numeric /\ x.v % Unit = 0 THEN [ok |-> TRUE, v |-> x.v]
         ELSE [ok |-> FALSE, error |-> "ValueError"]
    [] OTHER -> [ok |-> FALSE, error |-> "TypeError"]

\* variant: a severity that int() rejects becomes the default 5
BlockSeverityDefaulting(mb) ==
  LET converted == PyInt(Get(mb, "severity", Number(5 * Unit)))
  IN  IF converted.ok
      THEN [ok |-> TRUE,
            severity |-> Number(Max2(Unit, Min2(10 * Unit, converted.v)))]
      ELSE [ok |-> TRUE, severity |-> Number(5 * Unit)]

\* max(1, min(10, int(mb.get("severity", 5)))) (line 167): the severity
\* stored, or the exception that leaves the validator
BlockSeverity(mb) ==
  LET converted == PyInt(Get(mb, "severity", Number(5 * Unit)))
  IN  IF converted.ok
      THEN [ok |-> TRUE,
            severity |-> Number(Max2(Unit, Min2(10 * Unit, converted.v)))]
      ELSE [ok |-> FALSE, error |-> converted.error]

\* lines 145-150: the defaults of a kept goal
GoalDefaults(g) ==
  SetDefaultKey(
    SetDefaultKey(
      SetDefaultKey(
        SetDefaultKey(g, "measurable_outcome", ""),
        "evidence_quote", ""),
      "suggested_intervention", ""),
    "deadline", "None")

\* lines 166-170: a kept mental block, its severity being sev
BlockDefaults(mb, sev) ==
  SetDefaultKey(
    SetDefaultKey(
      Put(SetDefaultKey(mb, "block_type", "confusion"), "severity", sev),
      "cognitive_explanation", ""),
    "impact_on_learning", "")

\* lines 163-171: the loop over result.get("mental_blocks", []); acc is
\* valid_blocks, or the exception raised by an entry
RECURSIVE SanitizeBlocks(_, _)
SanitizeBlocks(acc, blocks) ==
  IF blocks = <<>> THEN [ok |-> TRUE, valid_blocks |-> acc]
  ELSE LET mb == Head(blocks)
       IN  IF ~DictWith(mb, "evidence_from_transcript")
           THEN SanitizeBlocks(acc, Tail(blocks))
           ELSE LET sev == BlockSeverity(mb)
                IN  IF sev.ok
                    THEN SanitizeBlocks(
                           Append(acc, BlockDefaults(mb, sev.severity)),
                           Tail(blocks))
                    ELSE [ok |-> FALSE, error |-> sev.error]

ValidGoalDict(g) == DictWith(g, "description")
ValidTopicDict(t) == DictWith(t, "name")

\* _validate_trial_result on a dict with all its keys: [ok |-> TRUE, value]
\* or [ok |-> FALSE, error]
ValidateTrialDict(res) ==
  IF "goals" \notin DOMAIN res \/ "topics" \notin DOMAIN res
  THEN [ok |-> FALSE, error |-> "ValueError"]
  ELSE
    LET kept == SelectSeq(res.goals, ValidGoalDict)
        valid_goals == [i \in DOMAIN kept |-> GoalDefaults(kept[i])]
        topics == SelectSeq(res.topics, ValidTopicDict)
        blocks == SanitizeBlocks(<<>>, Get(res, "mental_blocks", <<>>))
    IN  IF valid_goals = <<>> THEN [ok |-> FALSE, error |-> "ValueError"]
        ELSE IF ~blocks.ok THEN [ok |-> FALSE, error |-> blocks.error]
        ELSE
          [ok |-> TRUE,
           value |->
             SetDefaultKey(
               SetDefaultKey(
                 SetDefaultKey(
                   Put(Put(Put(res, "goals", valid_goals),
                           "topics", topics),
                       "mental_blocks", blocks.valid_blocks),
                   "summary", "Trial session processed by AI."),
                 "curriculum_recommendation", "General Math Proficiency"),
               "lesson_recommendations", <<>>)]

\* max(0.0, min(10.0, sev)) (line 208)
ClampSeverity(sev) == PyMax(FloatOf(0), PyMin(FloatOf(10 * Unit), sev)).v

\* lines 204-208: the severity stored for a signal, or the exception that
\* leaves the validator
SignalSeverity(sig) ==
  LET converted == Float(Get(sig, "severity", Number(Unit)))
  IN  IF converted.ok
      THEN [ok |-> TRUE, severity |-> Number(ClampSeverity(converted))]
      ELSE IF converted.error \in {"ValueError", "TypeError"}
      THEN [ok |-> TRUE, severity |-> Number(ClampSeverity(FloatOf(Unit)))]
      ELSE [ok |-> FALSE, error |-> converted.error]

\* lines 203-211: a kept signal, its severity being sev
SignalDefaults(sig, sev) ==
  SetDefaultKey(
    SetDefaultKey(
      SetDefaultKey(
        Put(SetDefaultKey(sig, "type", "confusion"), "severity", sev),
        "evidence_from_transcript", ""),
      "cognitive_explanation", ""),
    "impact_on_learning", "")

\* lines 201-213: the loop over result.get("mental_block_signals", [])
RECURSIVE SanitizeSignals(_, _)
SanitizeSignals(acc, signals) ==
  IF signals = <<>> THEN [ok |-> TRUE, valid_signals |-> acc]
  ELSE LET sig == Head(signals)
       IN  IF ~DictWith(sig, "description")
           THEN SanitizeSignals(acc, Tail(signals))
           ELSE LET sev == SignalSeverity(sig)
                IN  IF sev.ok
                    THEN SanitizeSignals(
                           Append(acc, SignalDefaults(sig, sev.severity)),
                           Tail(signals))
                    ELSE [ok |-> FALSE, error |-> sev.error]

\* lines 218-222: the defaults of a kept mastery update
MasteryUpdateDefaults(mu) ==
  SetDefaultKey(
    SetDefaultKey(SetDefaultKey(mu, "improvement", Number(0)),
                  "errors", Number(0)),
    "independent_solves", Number(0))

ValidMasteryUpdate(mu) == DictWith(mu, "topic")

\* lines 182-189: the defaults of the top-level keys
SessionDefaults(res) ==
  SetDefaultKey(
   SetDefaultKey(
    SetDefaultKey(
     SetDefaultKey(
      SetDefaultKey(
       SetDefaultKey(
        SetDefaultKey(
         SetDefaultKey(res, "topics_discussed", <<>>),
         "misconceptions", <<>>),
        "strengths", <<>>),
       "mastery_updates", <<>>),
      "lesson_recommendations", <<>>),
     "parent_summary", "Session completed successfully."),
    "tutor_insight", "Session data processed."),
   "recommended_next", "Continue with current progression.")

\* _validate_session_result on a dict with all its keys
ValidateSessionDict(res) ==
  LET defaulted == SessionDefaults(res)
      engagement ==
        ValidateEngagementScore(Get(defaulted, "engagement_score", Absent))
      signals ==
        SanitizeSignals(<<>>, Get(defaulted, "mental_block_signals", <<>>))
      kept == SelectSeq(defaulted.mastery_updates, ValidMasteryUpdate)
      valid_mastery == [i \in DOMAIN kept |-> MasteryUpdateDefaults(kept[i])]
  IN  IF ~engagement.ok THEN [ok |-> FALSE, error |-> engagement.error]
      ELSE IF ~signals.ok THEN [ok |-> FALSE, error |-> signals.error]
      ELSE
        [ok |-> TRUE,
         value |->
           Put(Put(Put(defaulted, "engagement_score",
                       Number(engagement.engagement_score)),
                   "mental_block_signals", signals.valid_signals),
               "mastery_updates", valid_mastery)]

\* parent_map.get(topic) (rule_based.py lines 214-230)
_get_parent_topic(topic) ==
  IF topic = "Fractions" THEN "Number Sense" ELSE "None"

\* a goal of _extract_goals as the dict process_trial returns: description
\* (written here by its lowercase text), measurable_outcome (a non-empty
\* text) and deadline None
GoalDict(g) ==
  [description |-> g.description.lower,
   measurable_outcome |-> "outcome of " \o g.description.lower,
   deadline |-> g.deadline]

\* RuleBasedProcessor.process_trial (lines 91-113) on a transcript with the
\* given captures, topics and curriculum terms
RuleTrialDict(matches, present, terms) ==
  LET goals == _extract_goals(matches, present)
      topics == _detect_topics(present)
  IN  [goals |-> [i \in DOMAIN goals |-> GoalDict(goals[i])],
       topics |-> [i \in DOMAIN topics |->
                     [name |-> topics[i],
                      parent |-> _get_parent_topic(topics[i])]],
       summary |-> "Curriculum track: " \o _infer_curriculum(terms),
       curriculum_recommendation |-> _infer_curriculum(terms)]

\* the words of a description, joined into its text
RECURSIVE JoinWords(_)
JoinWords(words) ==
  IF words = <<>> THEN ""
  ELSE IF Len(words) = 1 THEN words[1]
  ELSE words[1] \o " " \o JoinWords(Tail(words))

\* a signal of detect_mental_block_signals as a dict
SignalDict(sg) ==
  [description |-> JoinWords(sg.description),
   type |-> sg.type,
   severity |-> Number(sg.severity)]

\* RuleBasedProcessor.process_session (lines 115-152) on a transcript with
\* the given phrases, engagement counts and topics, no misconception or
\* strength pattern matching it
RuleSessionDict(transcript, positive, negative, word_count, present) ==
  LET topics == _detect_topics(present)
      signals == detect_mental_block_signals(transcript)
  IN  [topics_discussed |-> topics,
       misconceptions |-> <<>>,
       strengths |-> <<>>,
       engagement_score |->
         Number(_score_engagement(positive, negative, word_count)),
       mastery_updates |->
         [i \in DOMAIN topics |->
            [topic |-> topics[i], improvement |-> Number(100),
             errors |-> Number(0), independent_solves |-> Number(0)]],
       mental_block_signals |->
         [i \in DOMAIN signals |-> SignalDict(signals[i])],
       parent_summary |-> "Looking forward to continued progress",
       tutor_insight |-> "Topics covered",
       recommended_next |-> "Recommended"]

\* results of the remote model: a trial result whose mental block has the
\* given entries, a session result with the given numeric entries
ModelTrialDict(block) ==
  [goals |-> <<[description |-> "g1"]>>,
   topics |-> <<[name |-> "t1", parent |-> "None"]>>,
   mental_blocks |-> <<block>>]

\* a JSON object with the entry key: raw, or without the key
WithEntry(d, key, raw) == IF raw = Absent THEN d ELSE d @@ (key :> raw)

ModelSessionDict(engagement, severity) ==
  WithEntry(
    [mental_block_signals |->
       <<WithEntry([description |-> "d1"], "severity", severity)>>],
    "engagement_score", engagement)

ValidatorInputs ==
  {[kind |-> "trial", source |-> "model",
    result |-> ModelTrialDict(
                 WithEntry([evidence_from_transcript |-> "e1"],
                           "severity", raw))] : raw \in RawValues}
  \cup
  {[kind |-> "trial", source |-> "model",
    result |-> ModelTrialDict([evidence_from_transcript |-> "",
                               severity |-> Text(FALSE, 0)])]}
  \cup
  {[kind |-> "session", source |-> "model",
    result |-> ModelSessionDict(engagement, severity)] :
      engagement \in RawValues, severity \in RawValues}
  \cup
  {[kind |-> "trial", source |-> "rule_based",
    result |-> RuleTrialDict(matches, present, terms)] :
      matches \in {<<>>, <<Capture("feel more confident", FALSE)>>,
                   <<Capture("her grades", FALSE),
                     Capture("enjoy maths lessons", FALSE)>>},
      present \in {{}, {"Algebra", "Fractions"}},
      terms \in {{}, {"amc"}}}
  \cup
  {[kind |-> "session", source |-> "rule_based",
    result |-> RuleSessionDict(transcript, counts[1], counts[2], counts[3],
                               present)] :
      transcript \in BlockTranscripts,
      counts \in {<<0, 0, 0>>, <<2, 1, 123>>},
      present \in {{}, {"Algebra", "Fractions"}}}

InitValidator ==
  /\ usingGemini = FALSE
  /\ EngineIdle
  /\ MasteryIdle
  /\ EarlierIdle
  /\ TruncateIdle /\ RuleCallIdle /\ CallIdle /\ TopicsIdle /\ RaceIdle
  /\ vd_input \in ValidatorInputs
  /\ vd_out = <<>>

\* the result is handed to the validator of its kind
ValidateResult ==
  /\ vd_out = <<>>
  /\ vd_out' = <<IF vd_input.kind = "trial"
                 THEN ValidateTrialDict(vd_input.result)
                 ELSE ValidateSessionDict(vd_input.result)>>
  /\ UNCHANGED <<vd_input, engineVars, masteryVars, confVars, severityVars,
                 blockVars, goalVars, curriculumVars, engagementVars,
                 truncateVars, ruleCallVars, callVars, topicVars, raceVars>>

NextValidator == ValidateResult

SpecValidator == InitValidator /\ [][NextValidator]_vars

\* a JSON value that no conversion turns into a number: null, a list, a
\* text that is not a numeral
NonNumeric(raw) ==
  \/ raw.kind \in {"null", "list"}
  \/ raw.kind = "text" /\ ~raw.numeric

InRange(value, low, high) ==
  /\ value.kind = "number"
  /\ low * Unit <= value.v
  /\ value.v <= high * Unit

\* the entries the validator was given
InputBlock == vd_input.result.mental_blocks[1]
InputSignal == vd_input.result.mental_block_signals[1]

ModelTrialValidated ==
  vd_out # <<>> /\ vd_input.source = "model" /\ vd_input.kind = "trial"

ModelSessionValidated ==
  vd_out # <<>> /\ vd_input.source = "model" /\ vd_input.kind = "session"

\* C21: a non-numeric severity of a trial mental block, severity of a session
\* signal or session engagement score is replaced by its neutral default
\* (5, 1.0, 50.0) and the validator still returns a result, every severity
\* and engagement score of which is inside its range.
C21_CoercionFailureNeverFailsCall ==
  /\ ModelTrialValidated /\ InputBlock.evidence_from_transcript # ""
       /\ NonNumeric(Get(InputBlock, "severity", Number(5 * Unit)))
     => /\ vd_out[1].ok
        /\ vd_out[1].value.mental_blocks[1].severity = Number(5 * Unit)
  /\ ModelSessionValidated
       /\ NonNumeric(Get(InputSignal, "severity", Number(Unit)))
       /\ Get(vd_input.result, "engagement_score", Absent).kind # "huge int"
     => /\ vd_out[1].ok
        /\ vd_out[1].value.mental_block_signals[1].severity = Number(Unit)
  /\ ModelSessionValidated
       /\ NonNumeric(Get(vd_input.result, "engagement_score", Number(0)))
       /\ Get(InputSignal, "severity", Absent).kind # "huge int"
     => /\ vd_out[1].ok
        /\ vd_out[1].value.engagement_score = Number(50 * Unit)
  /\ ModelTrialValidated /\ vd_out[1].ok
     => \A i \in DOMAIN vd_out[1].value.mental_blocks :
          InRange(vd_out[1].value.mental_blocks[i].severity, 1, 10)
  /\ ModelSessionValidated /\ vd_out[1].ok
     => /\ InRange(vd_out[1].value.engagement_score, 0, 100)
        /\ \A i \in DOMAIN vd_out[1].value.mental_block_signals :
             InRange(vd_out[1].value.mental_block_signals[i].severity, 0, 10)

\* the session half of C21 alone, which the code keeps
C21_SessionCoercionGuarded ==
  /\ ModelSessionValidated
       /\ NonNumeric(Get(InputSignal, "severity", Number(Unit)))
       /\ Get(vd_input.result, "engagement_score", Absent).kind # "huge int"
     => /\ vd_out[1].ok
        /\ vd_out[1].value.mental_block_signals[1].severity = Number(Unit)
  /\ ModelSessionValidated /\ vd_out[1].ok
     => /\ InRange(vd_out[1].value.engagement_score, 0, 100)
        /\ \A i \in DOMAIN vd_out[1].value.mental_block_signals :
             InRange(vd_out[1].value.mental_block_signals[i].severity, 0, 10)

\* a trial response whose mental block has a non-numeric severity left the
\* validator with an exception
C21_TrialSeverityRaised ==
  /\ ModelTrialValidated
  /\ InputBlock.evidence_from_transcript # ""
  /\ NonNumeric(Get(InputBlock, "severity", Number(5 * Unit)))
  /\ ~vd_out[1].ok

\* C22: a result of the rule-based extractor, serialized and passed through
\* the Response Validator of its kind, comes back equal to the original: no
\* field added, removed or changed. (The values of a result are texts,
\* numbers, None, lists and dicts with text keys, which JSON text carries
\* unchanged.)
C22_RoundTripEqual ==
  vd_out # <<>> /\ vd_input.source = "rule_based"
    => /\ vd_out[1].ok
       /\ vd_out[1].value = vd_input.result

\* the index of the } that closes the object opened at start (0: none): the
\* first } at which the nesting depth of the JSON text is back to 0, a brace
\* inside a string literal being part of the string
RECURSIVE BalancingClose(_, _, _)
BalancingClose(text, i, depth) ==
  IF i = 0 \/ i > Len(text) THEN 0
  ELSE LET d == IF text[i] = "L" THEN depth + 1
                ELSE IF text[i] = "R" THEN depth - 1
                ELSE depth
       IN  IF text[i] = "R" /\ d = 0 THEN i
           ELSE BalancingClose(text, i + 1, d)

\* the response repair as C23 words it
RepairedValue(text) ==
  LET direct == JsonLoads(StripFences(text))
      start == FindOpen(text)
      close == BalancingClose(text, start, 0)
  IN  IF direct.ok THEN direct
      ELSE IF start = 0 \/ close = 0 THEN [ok |-> FALSE]
      ELSE JsonLoads(SubSeq(text, start, close))

\* C23: when the remote call returns a text, the value parsed from it is the
\* one of the fence-stripped text if that parses, otherwise the one of the
\* substring from the first { to the } that balances it; the extraction
\* fails when there is no {, when the braces never balance or when the
\* balanced region does not parse.
C23_RepairReturnsBalancedObject ==
  [][\A o \in RemoteOutcomes :
       ~o.raised /\ GenerateContent(o)
         => LET e == log'[Len(log')]
                claimed == RepairedValue(o.text)
            IN  /\ (e.outcome = "ok") = claimed.ok
                /\ claimed.ok => e.value = claimed.value]_vars

\* the same for the responses in which no string literal holds a brace
C23_RepairWithoutBraceInString ==
  [][\A o \in RemoteOutcomes :
       ~o.raised /\ GenerateContent(o)
         /\ (\A i \in DOMAIN o.text : o.text[i] # "SR")
         => LET e == log'[Len(log')]
                claimed == RepairedValue(o.text)
            IN  /\ (e.outcome = "ok") = claimed.ok
                /\ claimed.ok => e.value = claimed.value]_vars

(***************************************************************************)
(* Transcript truncation: GeminiProcessor._truncate_transcript             *)
(***************************************************************************)
MAX_TRANSCRIPT_CHARS == 120000

\* len("\n\n[TRANSCRIPT TRUNCATED - original was too long]") (line 66)
MarkerChars == 48

\* lengths are taken up to MaxExcess characters from 0 and from the limit
MaxExcess == 20

\* a text is the first `chars` characters of transcript `source`, followed
\* by the truncation marker or not
TruncateTranscripts ==
  [source : {"t1", "t2"},
   chars : (0..MaxExcess)
             \cup ((MAX_TRANSCRIPT_CHARS - MaxExcess)
                     ..(MAX_TRANSCRIPT_CHARS + MaxExcess))
             \cup {2 * MAX_TRANSCRIPT_CHARS},
   marker : {FALSE}]

\* len(text)
TextLen(text) == text.chars + (IF text.marker THEN MarkerChars ELSE 0)

\* text[:n]
Prefix(text, n) == [text EXCEPT !.chars = Min2(text.chars, n)]

\* text + "\n\n[TRANSCRIPT TRUNCATED ...]"
WithMarker(text) == [text EXCEPT !.marker = TRUE]

\* variant: the limit itself already counts as too long
_truncate_transcript_below_limit(transcript) ==
  IF TextLen(transcript) < MAX_TRANSCRIPT_CHARS THEN transcript
  ELSE WithMarker(Prefix(transcript, MAX_TRANSCRIPT_CHARS))

_truncate_transcript(transcript) ==
  IF TextLen(transcript) <= MAX_TRANSCRIPT_CHARS THEN transcript
  ELSE WithMarker(Prefix(transcript, MAX_TRANSCRIPT_CHARS))

InitTruncate ==
  /\ usingGemini = TRUE
  /\ EngineIdle
  /\ MasteryIdle
  /\ EarlierIdle
  /\ ValidatorIdle /\ RuleCallIdle /\ CallIdle /\ TopicsIdle /\ RaceIdle
  /\ tr_text \in TruncateTranscripts
  /\ tr_out = <<>>

\* transcript = self._truncate_transcript(transcript) (lines 232, 347):
\* the text that the prompt embeds
EmbedTranscript ==
  /\ tr_out = <<>>
  /\ tr_out' = <<_truncate_transcript(tr_text)>>
  /\ UNCHANGED <<tr_text, engineVars, masteryVars, confVars, severityVars,
                 blockVars, goalVars, curriculumVars, engagementVars,
                 validatorVars, ruleCallVars, callVars, topicVars, raceVars>>

NextTruncate == EmbedTranscript

SpecTruncate == InitTruncate /\ [][NextTruncate]_vars

\* C24: a transcript of at most 120,000 characters is embedded unchanged; a
\* longer one is replaced by its first 120,000 characters followed by the
\* truncation marker; the embedded text is never longer than 120,000
\* characters plus the marker.
C24_TruncatedAtLimit ==
  tr_out # <<>> =>
    /\ MAX_TRANSCRIPT_CHARS = 120000
    /\ tr_text.chars <= 120000 => tr_out[1] = tr_text
    /\ tr_text.chars > 120000 =>
         tr_out[1] = [source |-> tr_text.source, chars |-> 120000,
                      marker |-> TRUE]
    /\ TextLen(tr_out[1]) <= 120000 + MarkerChars

C24_Witness ==
  /\ tr_out # <<>>
  /\ tr_text.chars = 120001
  /\ tr_out[1].marker
  /\ tr_out[1].chars = 120000

(***************************************************************************)
(* Calls on one RuleBasedProcessor instance                                *)
(***************************************************************************)
MaxCalls == 3

\* transcripts, as the helpers of the extractor read them
RuleTranscripts ==
  {[matches |-> <<Capture("feel more confident", FALSE)>>,
    present |-> {"Algebra", "Fractions"},
    terms |-> {"amc"},
    phrases |-> [avoidance |-> {"i give up"}, emotional |-> {},
                 hesitation |-> {}],
    positive |-> 2, negative |-> 1, word_count |-> 123],
   [matches |-> <<>>, present |-> {}, terms |-> {},
    phrases |-> [avoidance |-> {}, emotional |-> {}, hesitation |-> {}],
    positive |-> 0, negative |-> 0, word_count |-> 0]}

\* variant: the result carries the student_id it was asked for
RuleBasedCallTagged(instance, kind, transcript, student_id) ==
  [result |->
     (IF kind = "trial"
      THEN RuleTrialDict(transcript.matches, transcript.present,
                         transcript.terms)
      ELSE RuleSessionDict(transcript.phrases, transcript.positive,
                           transcript.negative, transcript.word_count,
                           transcript.present))
       @@ ("student_id" :> student_id),
   instance |-> instance]

\* process_trial / process_session on the instance: the value returned and
\* the instance's attributes after the call (no method assigns to self, and
\* student_id is not read)
RuleBasedCall(instance, kind, transcript, student_id) ==
  [result |->
     IF kind = "trial"
     THEN RuleTrialDict(transcript.matches, transcript.present,
                        transcript.terms)
     ELSE RuleSessionDict(transcript.phrases, transcript.positive,
                          transcript.negative, transcript.word_count,
                          transcript.present),
   instance |-> instance]

\* RuleBasedProcessor(): the class defines no __init__ and no attribute
InitRuleCalls ==
  /\ usingGemini = FALSE
  /\ EngineIdle
  /\ MasteryIdle
  /\ EarlierIdle
  /\ ValidatorIdle /\ TruncateIdle /\ CallIdle /\ TopicsIdle /\ RaceIdle
  /\ rc_instance = <<>>
  /\ rc_calls = <<>>

CallRuleBased(kind, transcript, student_id) ==
  /\ Len(rc_calls) < MaxCalls
  /\ LET call == RuleBasedCall(rc_instance, kind, transcript, student_id)
     IN  /\ rc_instance' = call.instance
         /\ rc_calls' = Append(rc_calls,
                               [kind |-> kind, transcript |-> transcript,
                                student_id |-> student_id,
                                result |-> call.result])
  /\ UNCHANGED <<engineVars, masteryVars, confVars, severityVars, blockVars,
                 goalVars, curriculumVars, engagementVars, validatorVars,
                 truncateVars, callVars, topicVars, raceVars>>

NextRuleCalls ==
  \E kind \in {"trial", "session"}, transcript \in RuleTranscripts,
     student_id \in {1, 2} :
    CallRuleBased(kind, transcript, student_id)

SpecRuleCalls == InitRuleCalls /\ [][NextRuleCalls]_vars

Callers == {1, 2}

\* what the remote model answers to the successive attempts of one call
AttemptOutcomes == {"timeout", "invalid_json", "ok"}
Scripts == [1..MAX_RETRIES -> AttemptOutcomes]

\* the attributes __init__ sets (lines 29-51)
Config == [api_key |-> "key", model_name |-> "gemini", model |-> "handle"]

\* the frame of a call: last_error = None, the loop not yet entered
Frame(script) ==
  [pc |-> "attempt", attempt |-> 1, last_error |-> "None",
   parsed |-> "None", outcome |-> NoOutcome, script |-> script]

\* variant: the attempt number is a counter kept on the instance, advanced
\* by every call
LoopAttemptShared(calls, c) ==
  LET Up(d) == IF calls[d].pc \in {"returned", "raised"}
               THEN calls[d].attempt ELSE calls[d].attempt + 1
  IN  Max2(Up(1), Up(2))

\* for attempt in range(1, MAX_RETRIES + 1): the next value of the caller's
\* own loop variable
LoopAttempt(calls, c) == calls[c].attempt + 1

InitCalls ==
  /\ usingGemini = TRUE
  /\ EngineIdle
  /\ MasteryIdle
  /\ EarlierIdle
  /\ ValidatorIdle /\ TruncateIdle /\ RuleCallIdle /\ TopicsIdle /\ RaceIdle
  /\ cc_config = Config
  /\ cc_calls \in [Callers -> {Frame(script) : script \in Scripts}]

\* lines 106-114 and 115-127 up to the sleep: one remote call of caller c
\* and what its frame holds afterwards
CallerAttempt(c) ==
  LET f == cc_calls[c]
      answer == f.script[f.attempt]
  IN  /\ f.pc = "attempt"
      /\ f.attempt <= MAX_RETRIES
      /\ cc_calls' =
           [cc_calls EXCEPT ![c] =
              IF answer = "ok"
              THEN [f EXCEPT !.pc = "returned",
                             !.parsed = <<"response", c, f.attempt>>,
                             !.outcome = Returned(<<"response", c, f.attempt>>)]
              ELSE IF f.attempt < MAX_RETRIES
              THEN [f EXCEPT !.pc = "sleep", !.last_error = answer]
              ELSE [f EXCEPT !.pc = "raised", !.last_error = answer,
                             !.outcome = Raised(answer)]]
      /\ UNCHANGED <<cc_config, engineVars, masteryVars, confVars, severityVars,
                     blockVars, goalVars, curriculumVars, engagementVars,
                     validatorVars, truncateVars, ruleCallVars, topicVars,
                     raceVars>>

\* time.sleep(delay) is over: the caller's loop goes to its next iteration
CallerWakes(c) ==
  /\ cc_calls[c].pc = "sleep"
  /\ cc_calls' = [cc_calls EXCEPT ![c].pc = "attempt",
                                  ![c].attempt = LoopAttempt(cc_calls, c)]
  /\ UNCHANGED <<cc_config, engineVars, masteryVars, confVars, severityVars,
                 blockVars, goalVars, curriculumVars, engagementVars,
                 validatorVars, truncateVars, ruleCallVars, topicVars,
                 raceVars>>

NextCalls == \E c \in Callers : CallerAttempt(c) \/ CallerWakes(c)

SpecCalls == InitCalls /\ [][NextCalls]_vars

\* what a call returns when it runs alone against the answers of script
RECURSIVE AloneFrom(_, _, _)
AloneFrom(c, script, k) ==
  IF script[k] = "ok" THEN Returned(<<"response", c, k>>)
  ELSE IF k = MAX_RETRIES THEN Raised(script[k])
  ELSE AloneFrom(c, script, k + 1)

\* C26: under every interleaving of two calls on one instance, each call's
\* attempt counter, last error and parsed result are its own: a finished
\* call has returned (or raised) what it would alone, a running call has
\* made exactly the attempts its own answers account for; the instance's
\* api_key, model_name and model are never modified.
C26_ConcurrentCallsIndependent ==
  /\ cc_calls # <<>> => cc_config = Config
  /\ \A c \in DOMAIN cc_calls :
       LET f == cc_calls[c]
       IN  /\ f.attempt \in 1..MAX_RETRIES
           /\ \A k \in 1..(f.attempt - 1) : f.script[k] # "ok"
           /\ f.pc \in {"returned", "raised"} =>
                f.outcome = AloneFrom(c, f.script, 1)
           /\ f.pc = "returned" => f.parsed = <<"response", c, f.attempt>>
           /\ f.pc \in {"sleep", "raised"} =>
                f.last_error = f.script[f.attempt]
           /\ f.pc = "attempt" /\ f.attempt > 1 =>
                f.last_error = f.script[f.attempt - 1]

\* caller 1 returned the answer to its third attempt after caller 2, which
\* started at the same time, had raised the error of its own third attempt
C26_Witness ==
  /\ cc_calls # <<>>
  /\ cc_calls[1].pc = "returned" /\ cc_calls[1].attempt = 3
  /\ cc_calls[2].pc = "raised" /\ cc_calls[2].last_error = "timeout"
  /\ cc_calls[1].last_error = "invalid_json"

\* C27: processing a session never lowers the severity_score that a mental
\* block had before that session: a block into which a further matching
\* signal is folded keeps or raises its stored severity.
C27_SeverityNeverLowered ==
  [][\A i \in DOMAIN mb_table :
       mb_table'[i].severity_score >= mb_table[i].severity_score]_vars

(***************************************************************************)
(* Table topics: process_trial creates rows, process_session updates them  *)
(***************************************************************************)
MaxTopicRequests == 3

\* result["topics"] of a trial: lists of name and parent
TopicLists ==
  {<<>>,
   <<[name |-> "Algebra", parent |-> "None"]>>,
   <<[name |-> "Fractions", parent |-> "Number Sense"]>>,
   <<[name |-> "Algebra", parent |-> "None"],
     [name |-> "Fractions", parent |-> "Number Sense"]>>}

\* result["mastery_updates"] of a session, whatever the extractor returned:
\* the validator leaves the three values of an entry as they are
MasteryUpdates ==
  [topic : {"Algebra", "Fractions"},
   improvement : {Number(-1000000), Number(300), Number(1000000), NaN,
                  Text(TRUE, 500)},
   errors : {Number(0), Number(3 * Unit), Number(1000 * Unit), Null},
   independent_solves : {Number(0), Number(2 * Unit), Number(1000 * Unit)}]

UpdateLists ==
  {<<u>> : u \in MasteryUpdates}
    \cup {<<[topic |-> "Algebra", improvement |-> Number(300),
             errors |-> Number(0), independent_solves |-> Number(2 * Unit)],
            u>> : u \in MasteryUpdates}

TopicRow(id, student_id, topic_name) ==
  [id |-> id, student_id |-> student_id, topic_name |-> topic_name,
   mastery_score |-> 0, confidence_score |-> 0]

HasTopic(table, student_id, name) ==
  \E i \in DOMAIN table :
    table[i].student_id = student_id /\ table[i].topic_name = name

\* one pass of the loop of lines 458-482: the topic is inserted, after its
\* parent if that is named and missing, unless its name exists
CreateTopic(table, student_id, topic_data) ==
  IF HasTopic(table, student_id, topic_data.name) THEN table
  ELSE LET with_parent ==
             IF topic_data.parent # "None"
                  /\ ~HasTopic(table, student_id, topic_data.parent)
             THEN Append(table, TopicRow(Len(table) + 1, student_id,
                                         topic_data.parent))
             ELSE table
       IN  Append(with_parent,
                  TopicRow(Len(with_parent) + 1, student_id, topic_data.name))

RECURSIVE CreateTopics(_, _, _)
CreateTopics(table, student_id, topics) ==
  IF topics = <<>> THEN table
  ELSE CreateTopics(CreateTopic(table, student_id, Head(topics)),
                    student_id, Tail(topics))

\* a value that Python multiplies by a float: a number, nan or a bool; a
\* text, None or a list raises TypeError
Multiplies(raw) == raw.kind \in {"number", "nan", "bool"}

\* the value as a count (errors, independent_solves are whole numbers)
CountOf(raw) == Float(raw).v \div Unit

\* update_mastery on the entries of an update: max(0.0, min(100.0, nan)) is
\* 100.0, since no comparison with nan is true
MasteryOfUpdate(prev_score, update) ==
  IF \E raw \in {update.improvement, update.errors,
                 update.independent_solves} : raw.kind = "nan"
  THEN MAX_SCORE * Unit
  ELSE update_mastery(prev_score, Float(update.improvement).v,
                      CountOf(update.errors),
                      CountOf(update.independent_solves))

ConfidenceOfUpdate(prev_confidence, update) ==
  IF \E raw \in {update.errors, update.independent_solves} : raw.kind = "nan"
  THEN MAX_SCORE * Unit
  ELSE update_confidence(prev_confidence, CountOf(update.errors),
                         CountOf(update.independent_solves))

\* the loop of lines 529-548; an exception raised by a formula ends the
\* request, the rows updated before it stay updated
RECURSIVE ApplyMasteryUpdates(_, _, _)
ApplyMasteryUpdates(table, student_id, updates) ==
  IF updates = <<>> THEN table
  ELSE LET update == Head(updates)
           found == {i \in DOMAIN table :
                       /\ table[i].student_id = student_id
                       /\ table[i].topic_name = update.topic}
       IN  IF found = {}
           THEN ApplyMasteryUpdates(table, student_id, Tail(updates))
           ELSE IF \E raw \in {update.improvement, update.errors,
                               update.independent_solves} : ~Multiplies(raw)
           THEN table
           ELSE LET i == CHOOSE k \in found : \A j \in found : k <= j
                    topic == table[i]
                IN  ApplyMasteryUpdates(
                      [table EXCEPT ![i] =
                         [topic EXCEPT
                            !.mastery_score =
                              MasteryOfUpdate(topic.mastery_score, update),
                            !.confidence_score =
                              ConfidenceOfUpdate(topic.confidence_score,
                                                 update)]],
                      student_id, Tail(updates))

InitTopics ==
  /\ usingGemini \in BOOLEAN
  /\ EngineIdle
  /\ MasteryIdle
  /\ EarlierIdle
  /\ ValidatorIdle /\ TruncateIdle /\ RuleCallIdle /\ CallIdle /\ RaceIdle
  /\ tp_topics = <<>>
  /\ tp_count = 0

\* POST /api/process/trial, as far as table topics goes
TrialTopics(student_id, topics) ==
  /\ tp_count < MaxTopicRequests
  /\ tp_topics' = CreateTopics(tp_topics, student_id, topics)
  /\ tp_count' = tp_count + 1
  /\ UNCHANGED <<engineVars, masteryVars, confVars, severityVars, blockVars,
                 goalVars, curriculumVars, engagementVars, validatorVars,
                 truncateVars, ruleCallVars, callVars, raceVars>>

\* POST /api/process/session, as far as table topics goes
SessionTopics(student_id, updates) ==
  /\ tp_count < MaxTopicRequests
  /\ tp_topics' = ApplyMasteryUpdates(tp_topics, student_id, updates)
  /\ tp_count' = tp_count + 1
  /\ UNCHANGED <<engineVars, masteryVars, confVars, severityVars, blockVars,
                 goalVars, curriculumVars, engagementVars, validatorVars,
                 truncateVars, ruleCallVars, callVars, raceVars>>

NextTopics ==
  \/ \E student_id \in {1, 2}, topics \in TopicLists :
       TrialTopics(student_id, topics)
  \/ \E student_id \in {1, 2}, updates \in UpdateLists :
       SessionTopics(student_id, updates)

SpecTopics == InitTopics /\ [][NextTopics]_vars

\* C28: after any sequence of trial and session requests every row of table
\* topics has mastery_score and confidence_score in [0, 100]; a row is
\* created with both scores 0.
C28_TopicScoresInRange ==
  \A i \in DOMAIN tp_topics :
    /\ 0 <= tp_topics[i].mastery_score
    /\ tp_topics[i].mastery_score <= 100 * Unit
    /\ 0 <= tp_topics[i].confidence_score
    /\ tp_topics[i].confidence_score <= 100 * Unit
    /\ tp_count = 1 =>
         tp_topics[i].mastery_score = 0 /\ tp_topics[i].confidence_score = 0

\* after a trial and two sessions a topic stands at mastery 100 and
\* confidence 0: the updates' extreme values were clamped at both ends
C28_Witness ==
  /\ tp_count = 3
  /\ \E i \in DOMAIN tp_topics :
       /\ tp_topics[i].mastery_score = 100 * Unit
       /\ tp_topics[i].confidence_score = 0

(***************************************************************************)
(* process_session on a table mental_blocks that holds resolved blocks     *)
(***************************************************************************)
\* rows left by earlier sessions: an avoidance and an emotional block of
\* student 1, an avoidance block of student 2
EarlierBlocks(r1, r2, r3) ==
  <<[id |-> 1, student_id |-> 1,
     description |-> AvoidanceSignal("i give up").description,
     first_detected |-> 0, frequency_count |-> 2,
     severity_score |-> compute_severity(2, TRUE, FALSE), resolved |-> r1],
    [id |-> 2, student_id |-> 1,
     description |-> EmotionalSignal("i'm stressed").description,
     first_detected |-> 0, frequency_count |-> 1,
     severity_score |-> EmotionalSignal("i'm stressed").severity,
     resolved |-> r2],
    [id |-> 3, student_id |-> 2,
     description |-> AvoidanceSignal("i hate").description,
     first_detected |-> 0, frequency_count |-> 1,
     severity_score |-> AvoidanceSignal("i hate").severity,
     resolved |-> r3]>>

\* transcripts with at most two avoidance phrases and none or three
\* hesitation phrases
ResolvedTranscripts ==
  {t \in BlockTranscripts :
     /\ t.avoidance \subseteq {"i hate", "i give up"}
     /\ Cardinality(t.hesitation) \in {0, 3}}

\* the column resolved is 0 or 1; which blocks have been marked resolved is
\* decided outside process_session
InitResolved ==
  /\ usingGemini = FALSE
  /\ EngineIdle
  /\ MasteryIdle
  /\ ConfIdle /\ SeverityIdle /\ GoalsIdle /\ CurriculumIdle /\ EngagementIdle
  /\ LaterIdle
  /\ \E r1, r2, r3 \in {0, 1} : mb_table = EarlierBlocks(r1, r2, r3)
  /\ mb_detectedIn = <<{0}, {0}, {0}>>
  /\ mb_transcript = NoTranscript
  /\ mb_signals = <<>>
  /\ mb_count = 0

NextResolved ==
  \E transcript \in ResolvedTranscripts, student_id \in StudentIds :
    ProcessSessionBlocks(transcript, student_id)

SpecResolved == InitResolved /\ [][NextResolved]_vars

\* an unresolved block of the student whose description holds the word
Unresolved(table, student_id, word) ==
  {i \in DOMAIN table :
     /\ table[i].student_id = student_id
     /\ table[i].resolved = 0
     /\ \E k \in DOMAIN table[i].description : table[i].description[k] = word}

\* C29: processing a session leaves every resolved block as it is, changes
\* only unresolved blocks of the session's student, and for a signal that
\* matches no unresolved block of the student inserts a new block with the
\* signal's description, frequency_count 1 and the signal's own severity
\* (seen where the session has one signal of that type).
C29_ResolvedBlocksUntouched ==
  [][\A transcript \in ResolvedTranscripts, student_id \in StudentIds :
       ProcessSessionBlocks(transcript, student_id) =>
         /\ Len(mb_table') >= Len(mb_table)
         /\ \A i \in DOMAIN mb_table :
              /\ mb_table[i].resolved = 1 => mb_table'[i] = mb_table[i]
              /\ mb_table'[i] # mb_table[i] =>
                   /\ mb_table[i].student_id = student_id
                   /\ mb_table[i].resolved = 0
                   /\ mb_table'[i].resolved = 0
         /\ \A k \in DOMAIN mb_signals' :
              LET signal == mb_signals'[k]
                  alone == \A j \in DOMAIN mb_signals' :
                             mb_signals'[j].type = signal.type => j = k
              IN  alone /\ Unresolved(mb_table, student_id, signal.type) = {}
                    => \E i \in (Len(mb_table) + 1)..Len(mb_table') :
                         /\ mb_table'[i].student_id = student_id
                         /\ mb_table'[i].description = signal.description
                         /\ mb_table'[i].frequency_count = 1
                         /\ mb_table'[i].severity_score = signal.severity
                         /\ mb_table'[i].resolved = 0]_vars

\* a session of student 1 with the avoidance phrase of that student's
\* resolved block: the resolved block is as it was, a new block was inserted
C29_Witness ==
  /\ mb_count = 1
  /\ Len(mb_table) = 4
  /\ mb_table[1].resolved = 1
  /\ mb_table[1].frequency_count = 2
  /\ mb_table[3].resolved = 0
  /\ mb_table[3].frequency_count = 1
  /\ mb_table[4].description = mb_table[1].description
  /\ mb_table[4].frequency_count = 1
  /\ mb_table[4].resolved = 0

(***************************************************************************)
(* Two concurrent session requests on table mental_blocks                  *)
(***************************************************************************)
\* the requests run in two threads of the server on the one connection of
\* get_db (check_same_thread=False); each statement is committed by itself
Requests == {1, 2}

MaxRaceFrequency == 8

\* the signal both requests carry
RaceSignals == {AvoidanceSignal("i give up"), EmotionalSignal("i'm stressed")}

\* table mental_blocks before the requests: empty, or holding the unresolved
\* block the signal matches
RaceTables(signal) ==
  {<<>>}
    \cup {<<[id |-> 1, student_id |-> 1, description |-> signal.description,
             first_detected |-> 0, frequency_count |-> f,
             severity_score |->
               IF f = 1 THEN signal.severity
               ELSE compute_severity(f, signal.type = "avoidance",
                                     signal.type = "emotional"),
             resolved |-> 0]>> : f \in 1..MaxRaceFrequency}

InitRace ==
  /\ usingGemini = FALSE
  /\ EngineIdle
  /\ MasteryIdle
  /\ EarlierIdle
  /\ ValidatorIdle /\ TruncateIdle /\ RuleCallIdle /\ CallIdle /\ TopicsIdle
  /\ \E signal \in RaceSignals :
       /\ rx_table \in RaceTables(signal)
       /\ rx_reqs = [r \in Requests |->
                       [pc |-> "select", signal |-> signal, existing |-> 0,
                        frequency_count |-> 0,
                        before |-> IF rx_table = <<>> THEN 0
                                   ELSE rx_table[1].frequency_count]]

\* existing = query("SELECT * FROM mental_blocks WHERE ...", one=True)
\* (lines 553-556): the request keeps the row it read
SelectBlock(r) ==
  /\ rx_reqs[r].pc = "select"
  /\ LET found == MatchingBlocks(rx_table, 1, rx_reqs[r].signal)
         i == IF found = {} THEN 0
              ELSE CHOOSE k \in found : \A j \in found : k <= j
     IN  rx_reqs' = [rx_reqs EXCEPT
                       ![r].pc = "write",
                       ![r].existing = i,
                       ![r].frequency_count =
                         IF i = 0 THEN 0 ELSE rx_table[i].frequency_count]
  /\ UNCHANGED <<rx_table, engineVars, masteryVars, confVars, severityVars,
                 blockVars, goalVars, curriculumVars, engagementVars,
                 validatorVars, truncateVars, ruleCallVars, callVars,
                 topicVars>>

\* lines 557-572: the UPDATE with the values computed from the row read, or
\* the INSERT
WriteBlock(r) ==
  /\ rx_reqs[r].pc = "write"
  /\ LET q == rx_reqs[r]
         new_freq == q.frequency_count + 1
         new_severity == compute_severity(new_freq,
                                          q.signal.type = "avoidance",
                                          q.signal.type = "emotional")
     IN  rx_table' =
           IF q.existing # 0
           THEN [rx_table EXCEPT
                   ![q.existing].frequency_count = new_freq,
                   ![q.existing].severity_score = new_severity]
           ELSE Append(rx_table,
                       [id |-> Len(rx_table) + 1, student_id |-> 1,
                        description |-> q.signal.description,
                        first_detected |-> 1, frequency_count |-> 1,
                        severity_score |-> q.signal.severity,
                        resolved |-> 0])
  /\ rx_reqs' = [rx_reqs EXCEPT ![r].pc = "done"]
  /\ UNCHANGED <<engineVars, masteryVars, confVars, severityVars, blockVars,
                 goalVars, curriculumVars, engagementVars, validatorVars,
                 truncateVars, ruleCallVars, callVars, topicVars>>

NextRace == \E r \in Requests : SelectBlock(r) \/ WriteBlock(r)

SpecRace == InitRace /\ [][NextRace]_vars

BothDone == rx_reqs # <<>> /\ \A r \in Requests : rx_reqs[r].pc = "done"

\* C30: when two concurrent session requests of one student each carry a
\* signal matching the same unresolved block, then once both are done the
\* block's frequency_count is 2 higher than before; when no such block
\* existed, exactly one row was created for it.
C30_NoIncrementLost ==
  BothDone =>
    /\ Len(rx_table) = 1
    /\ rx_table[1].frequency_count = rx_reqs[1].before + 2

====
